---- MODULE Spec2Model ----
(***************************************************************************)
(* Model of the go-otel-e2e service: the createOrder and checkInventory    *)
(* handlers (src/handlers), the span-event logger and the JSON file logger *)
(* (src/logging), the orders_processed_total counter and the spans the     *)
(* handlers open, set and end.                                             *)
(*                                                                         *)
(* Each request is a goroutine with its own program counter pc[r]; the     *)
(* requests share the counter, the log file and its mutex, the console     *)
(* (the standard logger) and the clock.                                    *)
(***************************************************************************)
EXTENDS Integers, Sequences, FiniteSets, Bags, TLC

\* Requests served by the process, each on its own goroutine.
Requests == {1, 2}

\* Largest number of failing writes to the log file in one run.
MaxWriteFail == 1

\* Largest number of failing response encodes in one run.
MaxEncodeFail == 1

SpanNames == {"root", "db", "pay"}

VARIABLES
    rng,        \* random source: "full" (every value) or "edge" (extremes)
    main,       \* position of func main: "init", "serving", then the shutdown
    encoder,    \* JSONLogger.encoder: "nil" or "open"
    mu,         \* JSONLogger.mu: 0 when free, else the request holding it
    logFile,    \* the lines of the log file, in file order
    console,    \* bag of the lines printed by the standard logger
    counter,    \* orders_processed_total by status label
    now,        \* the clock read by time.Now()
    lost,       \* the entries whose write to the log file failed
    efails,     \* failed response encodes so far
    pc,         \* pc[r]: position of request r in its handler
    kind,       \* kind[r]: "order", "inventory" or "none"
    valid,      \* valid[r]: the request context carries a valid span
    spans,      \* spans[r][name]: the spans of request r
    resp,       \* resp[r]: what has been written to the ResponseWriter
    delay,      \* delay[r]: local `delay` of CheckInventoryHandler
    orderID,    \* orderID[r]: local `orderID` of CreateOrderHandler
    sleeping,   \* sleeping[r]: ns of the time.Sleep the request is in, or 0
    path,       \* path[r]: branch taken by CreateOrderHandler
    hre,        \* hre[r]: arguments of the running handleRequestError
    entry,      \* entry[r]: the map built by StructuredLogger.write
    ret,        \* ret[r]: where the running write or sleep continues
    draws,      \* draws[r]: the bucket and the coin drawn by CreateOrderHandler
    cancelled,  \* cancelled[r]: the request context has been cancelled
    shut        \* the shutdown: time left of its context, server, providers

vars == <<rng, main, encoder, mu, logFile, console, counter, now, lost,
          efails, pc, kind, valid, spans, resp, delay, orderID, sleeping,
          path, hre, entry, ret, draws, cancelled, shut>>

shared == <<encoder, mu, logFile, console, counter, now, lost>>

----------------------------------------------------------------------------
(* Constants of the program *)

LevelInfo == "INFO"
LevelError == "ERROR"
statusSuccess == "success"
statusFailure == "failure"

Unset == "Unset"
Ok == "Ok"
Error == "Error"

\* codes.Code: Unset = 0, Error = 1, Ok = 2
CodeRank(c) == CASE c = Unset -> 0 [] c = Error -> 1 [] c = Ok -> 2

----------------------------------------------------------------------------
(* Random source *)

\* rand.IntN(n): a value of [0, n).  The "edge" source draws only the two
\* extreme values of the range.
IntN(n) == IF rng = "full" THEN 0..(n - 1) ELSE {0, n - 1}

----------------------------------------------------------------------------
(* Trace and span identifiers *)

HexDigits == <<"0","1","2","3","4","5","6","7","8","9","a","b","c","d","e","f">>

RECURSIVE Hex(_, _)
\* TraceID.String() / SpanID.String(): lowercase hex, `width` digits.
Hex(n, width) ==
    IF width = 0 THEN <<>>
    ELSE Append(Hex(n \div 16, width - 1), HexDigits[(n % 16) + 1])

SpanIndex(name) == CASE name = "root" -> 1 [] name = "db" -> 2 [] name = "pay" -> 3

\* The identifiers of the spans of request r; all-zero identifiers are invalid.
TraceIDOf(r) == 16 + r
SpanIDOf(r, name) == 16 * r + SpanIndex(name)

\* span.SpanContext() of the span carried by context `ctx` of request r.
SpanContext(r, ctx) ==
    IF valid[r] THEN [trace |-> TraceIDOf(r), span |-> SpanIDOf(r, ctx)]
    ELSE [trace |-> 0, span |-> 0]

IsValid(sc) == sc.trace # 0 /\ sc.span # 0

----------------------------------------------------------------------------
(* Spans *)

NoSpan == [parent |-> "none", starts |-> 0, ends |-> 0, status |-> Unset, sets |-> 0,
           events |-> <<>>]

\* A span records while it is valid, started and not ended.
Recording(r, name) ==
    /\ valid[r]
    /\ spans[r][name].starts > 0
    /\ spans[r][name].ends = 0

\* tracer.Start(ctx, name): a new span, child of the span of ctx.
StartSpan(r, ctx, name) ==
    [spans EXCEPT ![r][name] =
        [@ EXCEPT !.parent = ctx, !.starts = @ + 1, !.ends = 0, !.status = Unset,
                  !.events = <<>>]]

\* span.End()
EndSpan(r, name) == [spans EXCEPT ![r][name].ends = @ + 1]

\* span.SetStatus(code, _): ignored once ended; a lower code never
\* replaces a higher one.
SetStatus(r, name, code) ==
    IF Recording(r, name)
    THEN [spans EXCEPT ![r][name] =
            [@ EXCEPT !.sets = @ + 1,
                      !.status = IF CodeRank(@) > CodeRank(code) THEN @ ELSE code]]
    ELSE [spans EXCEPT ![r][name].sets = @ + 1]

\* span.AddEvent(name, attrs)
AddEvent(r, name, ev) ==
    IF Recording(r, name)
    THEN [spans EXCEPT ![r][name].events = Append(@, ev)]
    ELSE spans

----------------------------------------------------------------------------
(* Attributes *)

Attr(k, t, v) == [key |-> k, type |-> t, value |-> v]

\* attrsToMap: key -> value, a later attribute replacing an earlier one.
attrsToMap(attrs) ==
    [k \in {attrs[i].key : i \in DOMAIN attrs} |->
        LET last == CHOOSE i \in DOMAIN attrs :
                       /\ attrs[i].key = k
                       /\ \A j \in DOMAIN attrs : attrs[j].key = k => j <= i
        IN attrs[last].value]

\* log.Printf("[%s] %s %v", level, message, attrs)
ConsoleLine(level, message, attrs) ==
    [level |-> level, message |-> message, attrs |-> attrs]

\* log.Printf("[WARN] failed to open log file ...")
WarnLine == [level |-> "WARN", message |-> "failed to open log file", attrs |-> <<>>]

Printf(line) == console (+) SetToBag({line})

----------------------------------------------------------------------------
(* Initial state *)

NoResp == [code |-> 0, ctype |-> "", text |-> "", json |-> <<>>]
NoHre == [ctx |-> "none", span |-> "none", message |-> "", err |-> "",
          stage |-> ""]
NoEntry == [timestamp |-> 0]
NoDraws == [bucket |-> -1, coin |-> -1]
NoShut == [left |-> -1, window |-> -1, server |-> "up", mp |-> "up", tp |-> "up"]

InitWith(source) ==
    /\ rng = source
    /\ main = "init"
    /\ encoder = "nil"
    /\ mu = 0
    /\ logFile = <<>>
    /\ console = EmptyBag
    /\ counter = [l \in {statusSuccess, statusFailure} |-> 0]
    /\ now = 1
    /\ lost = <<>>
    /\ efails = 0
    /\ pc = [r \in Requests |-> "idle"]
    /\ kind = [r \in Requests |-> "none"]
    /\ valid = [r \in Requests |-> FALSE]
    /\ spans = [r \in Requests |-> [n \in SpanNames |-> NoSpan]]
    /\ resp = [r \in Requests |-> NoResp]
    /\ delay = [r \in Requests |-> 0]
    /\ orderID = [r \in Requests |-> -1]
    /\ sleeping = [r \in Requests |-> 0]
    /\ path = [r \in Requests |-> "none"]
    /\ hre = [r \in Requests |-> NoHre]
    /\ entry = [r \in Requests |-> NoEntry]
    /\ ret = [r \in Requests |-> "none"]
    /\ draws = [r \in Requests |-> NoDraws]
    /\ cancelled = [r \in Requests |-> FALSE]
    /\ shut = NoShut

Init == InitWith("edge")

InitFull == InitWith("full")

----------------------------------------------------------------------------
(* logging.NewStructured and the start of the server *)

\* Variant of NewStructured that prints no warning.
NewStructured_Silent ==
    /\ main = "init"
    /\ main' = "serving"
    /\ \E opened \in BOOLEAN : encoder' = IF opened THEN "open" ELSE "nil"
    /\ UNCHANGED <<rng, draws, cancelled, shut,
                   mu, logFile, console, counter, now, lost, efails, pc,
                   kind, valid, spans, resp, delay, orderID, sleeping, path,
                   hre, entry, ret>>

\* NewStructured: open the log file; on failure print one warning and
\* return a logger without encoder.
NewStructured ==
    /\ main = "init"
    /\ main' = "serving"
    /\ \E opened \in BOOLEAN :
          IF opened
          THEN encoder' = "open" /\ console' = console
          ELSE encoder' = "nil" /\ console' = Printf(WarnLine)
    /\ UNCHANGED <<rng, draws, cancelled, shut,
                   mu, logFile, counter, now, lost, efails, pc, kind,
                   valid, spans, resp, delay, orderID, sleeping, path, hre,
                   entry, ret>>

\* otelhttp.NewHandler: a request arrives on a route; its context carries
\* the request span when tracing is available.
Route(r) ==
    /\ main = "serving"
    /\ pc[r] = "idle"
    /\ rng = "full" => r = 1
    /\ \E k \in {"order", "inventory"}, v \in BOOLEAN :
          /\ kind' = [kind EXCEPT ![r] = k]
          /\ valid' = [valid EXCEPT ![r] = v]
          /\ spans' = [spans EXCEPT ![r]["root"].starts = 1]
          /\ pc' = [pc EXCEPT ![r] = IF k = "order" THEN "co_validate" ELSE "inv_draw"]
    /\ UNCHANGED <<rng, draws, cancelled, shut,
                   main, shared, efails, resp, delay, orderID, sleeping,
                   path, hre, entry, ret>>

----------------------------------------------------------------------------
(* time.Sleep *)

Millisecond == 1000000

\* Variant of Wake for a sleep that selects on ctx.Done(): a request whose
\* context is cancelled returns from the handler.
Wake_Cancellable(r) ==
    /\ pc[r] = "asleep"
    /\ sleeping' = [sleeping EXCEPT ![r] = 0]
    /\ pc' = [pc EXCEPT ![r] = IF cancelled[r] THEN "done" ELSE ret[r]]
    /\ UNCHANGED <<rng, draws, cancelled, shut, main, shared, efails, kind, valid,
                   spans, resp, delay, orderID, path, hre, entry, ret>>

\* time.Sleep(d): the goroutine blocks for d nanoseconds, then goes on at
\* `next`.
Sleep(r, d, next) ==
    /\ sleeping' = [sleeping EXCEPT ![r] = d]
    /\ ret' = [ret EXCEPT ![r] = next]
    /\ pc' = [pc EXCEPT ![r] = "asleep"]

\* The sleep of request r is over.
Wake(r) ==
    /\ pc[r] = "asleep"
    /\ sleeping' = [sleeping EXCEPT ![r] = 0]
    /\ pc' = [pc EXCEPT ![r] = ret[r]]
    /\ UNCHANGED <<rng, draws, cancelled, shut,
                   main, shared, efails, kind, valid, spans, resp, delay,
                   orderID, path, hre, entry, ret>>

----------------------------------------------------------------------------
(* logging.Logger: log records as span events *)

LogEvent(level, message, attrs) ==
    [name |-> "log",
     attrs |-> <<Attr("log.level", "STRING", level),
                 Attr("log.message", "STRING", message)>> \o attrs]

\* Logger.log(ctx, level, message, attrs): an event "log" on the span of
\* ctx, or a console line when that span is not valid.
LoggerLog(r, ctx, level, message, attrs) ==
    IF ~IsValid(SpanContext(r, ctx))
    THEN /\ console' = Printf(ConsoleLine(level, message, attrs))
         /\ spans' = spans
    ELSE /\ spans' = AddEvent(r, ctx, LogEvent(level, message, attrs))
         /\ console' = console

----------------------------------------------------------------------------
(* logging.StructuredLogger: JSON lines in the log file *)

\* Variant of Entry that takes the identifiers of the request span whatever
\* the context it is given.
Entry_RootIDs(r, ctx, level, message, attrs) ==
    LET sc == SpanContext(r, "root")
    IN IF IsValid(sc)
       THEN [timestamp |-> now, level |-> level, message |-> message,
             attributes |-> attrsToMap(attrs),
             trace_id |-> Hex(sc.trace, 32), span_id |-> Hex(sc.span, 16)]
       ELSE [timestamp |-> now, level |-> level, message |-> message,
             attributes |-> attrsToMap(attrs)]

\* The map `entry` of StructuredLogger.write.
Entry(r, ctx, level, message, attrs) ==
    LET sc == SpanContext(r, ctx)
        base == [timestamp |-> now, level |-> level, message |-> message,
                 attributes |-> attrsToMap(attrs)]
    IN IF IsValid(sc)
       THEN [timestamp |-> now, level |-> level, message |-> message,
             attributes |-> attrsToMap(attrs),
             trace_id |-> Hex(sc.trace, 32), span_id |-> Hex(sc.span, 16)]
       ELSE base

\* Variant of WriteBegin that also falls back to the console, and writes no
\* line, when the context has no valid span.
WriteBegin_SkipBare(r, ctx, level, message, attrs, next) ==
    IF encoder = "nil" \/ ~IsValid(SpanContext(r, ctx))
    THEN /\ console' = Printf(ConsoleLine(level, message, attrs))
         /\ pc' = [pc EXCEPT ![r] = next]
         /\ UNCHANGED <<entry, now, ret>>
    ELSE /\ entry' = [entry EXCEPT ![r] = Entry(r, ctx, level, message, attrs)]
         /\ now' = now + 1
         /\ ret' = [ret EXCEPT ![r] = next]
         /\ pc' = [pc EXCEPT ![r] = "w_lock"]
         /\ console' = console

\* StructuredLogger.write up to the lock: the console fallback when the
\* file could not be opened, else the entry is built and the write goes on
\* to take the lock.
WriteBegin(r, ctx, level, message, attrs, next) ==
    IF encoder = "nil"
    THEN /\ console' = Printf(ConsoleLine(level, message, attrs))
         /\ pc' = [pc EXCEPT ![r] = next]
         /\ UNCHANGED <<entry, now, ret>>
    ELSE /\ entry' = [entry EXCEPT ![r] = Entry(r, ctx, level, message, attrs)]
         /\ now' = now + 1
         /\ ret' = [ret EXCEPT ![r] = next]
         /\ pc' = [pc EXCEPT ![r] = "w_lock"]
         /\ console' = console

\* Variant of WriteLock that does not wait for the holder of the lock.
WriteLock_NoWait(r) ==
    /\ pc[r] = "w_lock"
    /\ mu' = r
    /\ pc' = [pc EXCEPT ![r] = "w_encode"]
    /\ UNCHANGED <<rng, draws, cancelled, shut, main, encoder, logFile, console,
                   counter, now, lost, efails, kind, valid, spans, resp,
                   delay, orderID, sleeping, path, hre, entry, ret>>

\* l.mu.Lock()
WriteLock(r) ==
    /\ pc[r] = "w_lock"
    /\ mu = 0
    /\ mu' = r
    /\ pc' = [pc EXCEPT ![r] = "w_encode"]
    /\ UNCHANGED <<rng, draws, cancelled, shut,
                   main, encoder, logFile, console, counter, now, lost,
                   efails, kind, valid, spans, resp, delay, orderID, sleeping,
                   path, hre, entry, ret>>

\* Variant of WriteEncode in which a failed write ends the handler.
WriteEncode_Abort(r) ==
    /\ pc[r] = "w_encode"
    /\ \/ /\ logFile' = Append(logFile, entry[r])
          /\ lost' = lost
          /\ pc' = [pc EXCEPT ![r] = "w_unlock"]
       \/ /\ Len(lost) < MaxWriteFail
          /\ lost' = Append(lost, entry[r])
          /\ logFile' = logFile
          /\ pc' = [pc EXCEPT ![r] = "done"]
    /\ UNCHANGED <<rng, draws, cancelled, shut,
                   main, encoder, mu, console, counter, now, efails,
                   kind, valid, spans, resp, delay, orderID, sleeping, path,
                   hre, entry, ret>>

\* Variant of WriteEncode for a file opened without O_APPEND: the line
\* replaces the content of the file.
WriteEncode_Truncate(r) ==
    /\ pc[r] = "w_encode"
    /\ \/ /\ logFile' = <<entry[r]>>
          /\ lost' = lost
       \/ /\ Len(lost) < MaxWriteFail
          /\ lost' = Append(lost, entry[r])
          /\ logFile' = logFile
    /\ pc' = [pc EXCEPT ![r] = "w_unlock"]
    /\ UNCHANGED <<rng, draws, cancelled, shut, main, encoder, mu, console, counter,
                   now, efails, kind, valid, spans, resp, delay, orderID,
                   sleeping, path, hre, entry, ret>>

\* Variant of WriteEncode that puts the new line in front of the others.
WriteEncode_Prepend(r) ==
    /\ pc[r] = "w_encode"
    /\ \/ /\ logFile' = <<entry[r]>> \o logFile
          /\ lost' = lost
       \/ /\ Len(lost) < MaxWriteFail
          /\ lost' = Append(lost, entry[r])
          /\ logFile' = logFile
    /\ pc' = [pc EXCEPT ![r] = "w_unlock"]
    /\ UNCHANGED <<rng, draws, cancelled, shut, main, encoder, mu, console,
                   counter, now, efails, kind, valid, spans, resp, delay,
                   orderID, sleeping, path, hre, entry, ret>>

\* _ = l.encoder.Encode(entry): one line appended to the file; the error
\* of a failed write is discarded.
WriteEncode(r) ==
    /\ pc[r] = "w_encode"
    /\ \/ /\ logFile' = Append(logFile, entry[r])
          /\ lost' = lost
       \/ /\ Len(lost) < MaxWriteFail
          /\ lost' = Append(lost, entry[r])
          /\ logFile' = logFile
    /\ pc' = [pc EXCEPT ![r] = "w_unlock"]
    /\ UNCHANGED <<rng, draws, cancelled, shut,
                   main, encoder, mu, console, counter, now, efails,
                   kind, valid, spans, resp, delay, orderID, sleeping, path,
                   hre, entry, ret>>

\* Variant of WriteUnlock for a write that returns without the deferred
\* Unlock.
WriteUnlock_Hold(r) ==
    /\ pc[r] = "w_unlock"
    /\ mu' = mu
    /\ entry' = [entry EXCEPT ![r] = NoEntry]
    /\ pc' = [pc EXCEPT ![r] = ret[r]]
    /\ UNCHANGED <<rng, draws, cancelled, shut, main, encoder, logFile, console,
                   counter, now, lost, efails, kind, valid, spans, resp,
                   delay, orderID, sleeping, path, hre, ret>>

\* defer l.mu.Unlock(), and the return of write
WriteUnlock(r) ==
    /\ pc[r] = "w_unlock"
    /\ mu' = 0
    /\ entry' = [entry EXCEPT ![r] = NoEntry]
    /\ pc' = [pc EXCEPT ![r] = ret[r]]
    /\ UNCHANGED <<rng, draws, cancelled, shut,
                   main, encoder, logFile, console, counter, now, lost,
                   efails, kind, valid, spans, resp, delay, orderID, sleeping,
                   path, hre, ret>>

----------------------------------------------------------------------------
(* handlers.CheckInventoryHandler *)

InvMessage == "Inventory checked successfully"
InvEncodeMessage == "Error encoding inventory response"

InvAttrs(r) == <<Attr("inventory.check.delay_ms", "INT64", delay[r])>>
EncodeErrAttrs == <<Attr("error.reason", "STRING", "write failed")>>

\* Variant of InvDraw: delay := rand.IntN(602) + 200.
InvDraw_602(r) ==
    /\ pc[r] = "inv_draw"
    /\ \E v \in IntN(602) : delay' = [delay EXCEPT ![r] = v + 200]
    /\ pc' = [pc EXCEPT ![r] = "inv_sleep"]
    /\ UNCHANGED <<rng, draws, cancelled, shut,
                   main, shared, efails, kind, valid, spans, resp,
                   orderID, sleeping, path, hre, entry, ret>>

\* delay := rand.IntN(601) + 200
InvDraw(r) ==
    /\ pc[r] = "inv_draw"
    /\ \E v \in IntN(601) : delay' = [delay EXCEPT ![r] = v + 200]
    /\ pc' = [pc EXCEPT ![r] = "inv_sleep"]
    /\ UNCHANGED <<rng, draws, cancelled, shut,
                   main, shared, efails, kind, valid, spans, resp,
                   orderID, sleeping, path, hre, entry, ret>>

\* Variant of InvSleep: time.Sleep(time.Duration(delay)), in nanoseconds.
InvSleep_Nanoseconds(r) ==
    /\ pc[r] = "inv_sleep"
    /\ Sleep(r, delay[r], "inv_info1")
    /\ UNCHANGED <<rng, draws, cancelled, shut,
                   main, shared, efails, kind, valid, spans, resp, delay,
                   orderID, path, hre, entry>>

\* time.Sleep(time.Duration(delay) * time.Millisecond)
InvSleep(r) ==
    /\ pc[r] = "inv_sleep"
    /\ Sleep(r, delay[r] * Millisecond, "inv_info1")
    /\ UNCHANGED <<rng, draws, cancelled, shut,
                   main, shared, efails, kind, valid, spans, resp, delay,
                   orderID, path, hre, entry>>

\* Variant of InvInfo1 that also marks the request span Ok, as the order
\* handler does.
InvInfo1_RootOk(r) ==
    /\ pc[r] = "inv_info1"
    /\ \E after \in {SetStatus(r, "root", Ok)} :
          IF ~valid[r]
          THEN /\ console' = Printf(ConsoleLine(LevelInfo, InvMessage, InvAttrs(r)))
               /\ spans' = after
          ELSE /\ spans' = [after EXCEPT ![r]["root"].events =
                              Append(@, LogEvent(LevelInfo, InvMessage, InvAttrs(r)))]
               /\ console' = console
    /\ pc' = [pc EXCEPT ![r] = "inv_info2"]
    /\ UNCHANGED <<rng, draws, cancelled, shut, main, encoder, mu, logFile,
                   counter, now, lost, efails, kind, valid, resp, delay,
                   orderID, sleeping, path, hre, entry, ret>>

\* logging.DefaultLogger.Info(ctx, "Inventory checked successfully", ...)
InvInfo1(r) ==
    /\ pc[r] = "inv_info1"
    /\ LoggerLog(r, "root", LevelInfo, InvMessage, InvAttrs(r))
    /\ pc' = [pc EXCEPT ![r] = "inv_info2"]
    /\ UNCHANGED <<rng, draws, cancelled, shut,
                   main, encoder, mu, logFile, counter, now, lost,
                   efails, kind, valid, resp, delay, orderID, sleeping, path,
                   hre, entry, ret>>

\* logging.JSONLogger.Info(ctx, "Inventory checked successfully", ...)
InvInfo2(r) ==
    /\ pc[r] = "inv_info2"
    /\ WriteBegin(r, "root", LevelInfo, InvMessage, InvAttrs(r), "inv_encode")
    /\ UNCHANGED <<rng, draws, cancelled, shut,
                   main, encoder, mu, logFile, counter, lost, efails,
                   kind, valid, spans, resp, delay, orderID, sleeping, path,
                   hre>>

\* The InventoryResponse of the handler, as JSON.
InventoryResponse(r) ==
    [status |-> "success", message |-> InvMessage, delay_ms |-> delay[r]]

\* w.Header().Set(...); json.NewEncoder(w).Encode(resp): the body is
\* written with status 200, or the write fails after the status was sent.
InvEncode(r) ==
    /\ pc[r] = "inv_encode"
    /\ \/ /\ resp' = [resp EXCEPT ![r] =
                        [code |-> 200, ctype |-> "application/json",
                         text |-> "", json |-> <<InventoryResponse(r)>>]]
          /\ pc' = [pc EXCEPT ![r] = "done"]
          /\ efails' = efails
       \/ /\ efails < MaxEncodeFail
          /\ efails' = efails + 1
          /\ resp' = [resp EXCEPT ![r] =
                        [code |-> 200, ctype |-> "application/json",
                         text |-> "", json |-> <<>>]]
          /\ pc' = [pc EXCEPT ![r] = "inv_err1"]
    /\ UNCHANGED <<rng, draws, cancelled, shut,
                   main, shared, kind, valid, spans, delay, orderID,
                   sleeping, path, hre, entry, ret>>

\* logging.DefaultLogger.Error(ctx, "Error encoding inventory response", ...)
InvErr1(r) ==
    /\ pc[r] = "inv_err1"
    /\ LoggerLog(r, "root", LevelError, InvEncodeMessage, EncodeErrAttrs)
    /\ pc' = [pc EXCEPT ![r] = "inv_err2"]
    /\ UNCHANGED <<rng, draws, cancelled, shut,
                   main, encoder, mu, logFile, counter, now, lost,
                   efails, kind, valid, resp, delay, orderID, sleeping, path,
                   hre, entry, ret>>

\* logging.JSONLogger.Error(ctx, "Error encoding inventory response", ...)
InvErr2(r) ==
    /\ pc[r] = "inv_err2"
    /\ WriteBegin(r, "root", LevelError, InvEncodeMessage, EncodeErrAttrs, "done")
    /\ UNCHANGED <<rng, draws, cancelled, shut,
                   main, encoder, mu, logFile, counter, lost, efails,
                   kind, valid, spans, resp, delay, orderID, sleeping, path,
                   hre>>

----------------------------------------------------------------------------
(* handlers.CreateOrderHandler *)

\* A context is modelled by the name of the span it carries:
\* trace.SpanFromContext(ctx).
SpanFromContext(ctx) == ctx

OrderMessage == "Order created successfully"
OrderEncodeMessage == "Error encoding response"
DBMessage == "database operation failed"
DBErr == "simulated database constraint violation"
PaymentMessage == "payment processing failed"
PaymentErr == "simulated payment provider error"

OrderAttrs(r) == <<Attr("order.id", "INT64", orderID[r])>>

\* time.Sleep(time.Duration(rand.IntN(50)+30) * time.Millisecond)
CoValidate(r) ==
    /\ pc[r] = "co_validate"
    /\ \E v \in IntN(50) : Sleep(r, (v + 30) * Millisecond, "co_decide")
    /\ UNCHANGED <<rng, draws, cancelled, shut,
                   main, shared, efails, kind, valid, spans, resp, delay,
                   orderID, path, hre, entry>>

\* Variant of Branch that fails for the buckets 0 and 1.
Branch_TwoBuckets(b, c) ==
    IF b = 0 \/ b = 1 THEN (IF c = 0 THEN "dbfail" ELSE "payfail") ELSE "success"

\* if rand.IntN(10) == 0 { if rand.IntN(2) == 0 { handleDBError } else
\* { DB step, then handlePaymentError } } else the success path
Branch(b, c) ==
    IF b = 0 THEN (IF c = 0 THEN "dbfail" ELSE "payfail") ELSE "success"

\* The bucket is drawn, and the coin when the bucket is 0; the handler
\* goes on to handleDBError or to the DB step.
CoDecide(r) ==
    /\ pc[r] = "co_decide"
    /\ \E b \in IntN(10) :
          \E c \in (IF b = 0 THEN IntN(2) ELSE {-1}) :
              /\ draws' = [draws EXCEPT ![r] = [bucket |-> b, coin |-> c]]
              /\ path' = [path EXCEPT ![r] = Branch(b, c)]
              /\ pc' = [pc EXCEPT ![r] = IF Branch(b, c) = "dbfail"
                                          THEN "hdb_start" ELSE "db_start"]
    /\ UNCHANGED <<rng, cancelled, shut, main, shared, efails, kind, valid, spans,
                   resp, delay, orderID, sleeping, hre, entry, ret>>

\* _, dbSpan := tracer.Start(ctx, "db.insert_order")
DbStart(r) ==
    /\ pc[r] = "db_start"
    /\ spans' = StartSpan(r, "root", "db")
    /\ pc' = [pc EXCEPT ![r] = "db_sleep"]
    /\ UNCHANGED <<rng, draws, cancelled, shut,
                   main, shared, efails, kind, valid, resp, delay,
                   orderID, sleeping, path, hre, entry, ret>>

\* time.Sleep(time.Duration(rand.IntN(100)+50) * time.Millisecond)
DbSleep(r) ==
    /\ pc[r] = "db_sleep"
    /\ \E v \in IntN(100) : Sleep(r, (v + 50) * Millisecond, "db_ok")
    /\ UNCHANGED <<rng, draws, cancelled, shut,
                   main, shared, efails, kind, valid, spans, resp, delay,
                   orderID, path, hre, entry>>

\* dbSpan.SetStatus(codes.Ok, "order record inserted")
DbOk(r) ==
    /\ pc[r] = "db_ok"
    /\ spans' = SetStatus(r, "db", Ok)
    /\ pc' = [pc EXCEPT ![r] = "db_end"]
    /\ UNCHANGED <<rng, draws, cancelled, shut,
                   main, shared, efails, kind, valid, resp, delay,
                   orderID, sleeping, path, hre, entry, ret>>

\* Variant of DbEnd that goes on to the payment step on every branch.
DbEnd_NoBranch(r) ==
    /\ pc[r] = "db_end"
    /\ spans' = EndSpan(r, "db")
    /\ pc' = [pc EXCEPT ![r] = "pay_start"]
    /\ UNCHANGED <<rng, draws, cancelled, shut, main, shared, efails, kind, valid,
                   resp, delay, orderID, sleeping, path, hre, entry, ret>>

\* dbSpan.End(); then handlePaymentError on the payment-failure branch,
\* the payment step on the success path
DbEnd(r) ==
    /\ pc[r] = "db_end"
    /\ spans' = EndSpan(r, "db")
    /\ pc' = [pc EXCEPT ![r] = IF path[r] = "payfail" THEN "hpe_start"
                                                      ELSE "pay_start"]
    /\ UNCHANGED <<rng, draws, cancelled, shut,
                   main, shared, efails, kind, valid, resp, delay,
                   orderID, sleeping, path, hre, entry, ret>>

\* Variant of PayStart that starts the span from the context of the
\* database span.
PayStart_Nested(r) ==
    /\ pc[r] = "pay_start"
    /\ spans' = StartSpan(r, "db", "pay")
    /\ pc' = [pc EXCEPT ![r] = "pay_sleep"]
    /\ UNCHANGED <<rng, draws, cancelled, shut, main, shared, efails, kind, valid,
                   resp, delay, orderID, sleeping, path, hre, entry, ret>>

\* _, paySpan := tracer.Start(ctx, "payment.process")
PayStart(r) ==
    /\ pc[r] = "pay_start"
    /\ spans' = StartSpan(r, "root", "pay")
    /\ pc' = [pc EXCEPT ![r] = "pay_sleep"]
    /\ UNCHANGED <<rng, draws, cancelled, shut,
                   main, shared, efails, kind, valid, resp, delay,
                   orderID, sleeping, path, hre, entry, ret>>

\* Variant of PaySleep: rand.IntN(81)+40.
PaySleep_81(r) ==
    /\ pc[r] = "pay_sleep"
    /\ \E v \in IntN(81) : Sleep(r, (v + 40) * Millisecond, "pay_ok")
    /\ UNCHANGED <<rng, draws, cancelled, shut,
                   main, shared, efails, kind, valid, spans, resp, delay,
                   orderID, path, hre, entry>>

\* time.Sleep(time.Duration(rand.IntN(80)+40) * time.Millisecond)
PaySleep(r) ==
    /\ pc[r] = "pay_sleep"
    /\ \E v \in IntN(80) : Sleep(r, (v + 40) * Millisecond, "pay_ok")
    /\ UNCHANGED <<rng, draws, cancelled, shut,
                   main, shared, efails, kind, valid, spans, resp, delay,
                   orderID, path, hre, entry>>

\* paySpan.SetStatus(codes.Ok, "payment processed successfully")
PayOk(r) ==
    /\ pc[r] = "pay_ok"
    /\ spans' = SetStatus(r, "pay", Ok)
    /\ pc' = [pc EXCEPT ![r] = "pay_end"]
    /\ UNCHANGED <<rng, draws, cancelled, shut,
                   main, shared, efails, kind, valid, resp, delay,
                   orderID, sleeping, path, hre, entry, ret>>

\* paySpan.End()
PayEnd(r) ==
    /\ pc[r] = "pay_end"
    /\ spans' = EndSpan(r, "pay")
    /\ pc' = [pc EXCEPT ![r] = "co_add"]
    /\ UNCHANGED <<rng, draws, cancelled, shut,
                   main, shared, efails, kind, valid, resp, delay,
                   orderID, sleeping, path, hre, entry, ret>>

\* ordersProcessedCounter.Add(ctx, 1, status=label)
CounterAdd(label) == [counter EXCEPT ![label] = @ + 1]

\* ordersProcessedCounter.Add(ctx, 1, status="success")
CoAdd(r) ==
    /\ pc[r] = "co_add"
    /\ counter' = CounterAdd(statusSuccess)
    /\ pc' = [pc EXCEPT ![r] = "co_orderid"]
    /\ UNCHANGED <<rng, draws, cancelled, shut,
                   main, encoder, mu, logFile, console, now, lost,
                   efails, kind, valid, spans, resp, delay, orderID, sleeping,
                   path, hre, entry, ret>>

\* orderID := rand.IntN(1000)
CoOrderID(r) ==
    /\ pc[r] = "co_orderid"
    /\ \E v \in IntN(1000) : orderID' = [orderID EXCEPT ![r] = v]
    /\ pc' = [pc EXCEPT ![r] = "co_rootok"]
    /\ UNCHANGED <<rng, draws, cancelled, shut,
                   main, shared, efails, kind, valid, spans, resp, delay,
                   sleeping, path, hre, entry, ret>>

\* Variant of CoRootOk that goes on to the response without the Info
\* records.
CoRootOk_NoLog(r) ==
    /\ pc[r] = "co_rootok"
    /\ spans' = SetStatus(r, SpanFromContext("root"), Ok)
    /\ pc' = [pc EXCEPT ![r] = "co_encode"]
    /\ UNCHANGED <<rng, draws, cancelled, shut, main, shared, efails, kind, valid,
                   resp, delay, orderID, sleeping, path, hre, entry, ret>>

\* trace.SpanFromContext(ctx).SetStatus(codes.Ok, "order created successfully")
CoRootOk(r) ==
    /\ pc[r] = "co_rootok"
    /\ spans' = SetStatus(r, SpanFromContext("root"), Ok)
    /\ pc' = [pc EXCEPT ![r] = "co_info1"]
    /\ UNCHANGED <<rng, draws, cancelled, shut,
                   main, shared, efails, kind, valid, resp, delay,
                   orderID, sleeping, path, hre, entry, ret>>

\* logging.DefaultLogger.Info(ctx, "Order created successfully", order.id)
CoInfo1(r) ==
    /\ pc[r] = "co_info1"
    /\ LoggerLog(r, "root", LevelInfo, OrderMessage, OrderAttrs(r))
    /\ pc' = [pc EXCEPT ![r] = "co_info2"]
    /\ UNCHANGED <<rng, draws, cancelled, shut,
                   main, encoder, mu, logFile, counter, now, lost,
                   efails, kind, valid, resp, delay, orderID, sleeping, path,
                   hre, entry, ret>>

\* logging.JSONLogger.Info(ctx, "Order created successfully", order.id)
CoInfo2(r) ==
    /\ pc[r] = "co_info2"
    /\ WriteBegin(r, "root", LevelInfo, OrderMessage, OrderAttrs(r), "co_encode")
    /\ UNCHANGED <<rng, draws, cancelled, shut,
                   main, encoder, mu, logFile, counter, lost, efails,
                   kind, valid, spans, resp, delay, orderID, sleeping, path,
                   hre>>

\* The OrderResponse of the handler, as JSON.
OrderResponse == [status |-> "success", message |-> OrderMessage]

\* Variant of CoEncode that answers a failed encode with status 500.
CoEncode_Status500(r) ==
    /\ pc[r] = "co_encode"
    /\ \/ /\ resp' = [resp EXCEPT ![r] =
                        [code |-> 200, ctype |-> "application/json",
                         text |-> "", json |-> <<OrderResponse>>]]
          /\ pc' = [pc EXCEPT ![r] = "done"]
          /\ efails' = efails
       \/ /\ efails < MaxEncodeFail
          /\ efails' = efails + 1
          /\ resp' = [resp EXCEPT ![r] =
                        [code |-> 500, ctype |-> "application/json",
                         text |-> "", json |-> <<>>]]
          /\ pc' = [pc EXCEPT ![r] = "co_err1"]
    /\ UNCHANGED <<rng, draws, cancelled, shut, main, shared, kind, valid, spans,
                   delay, orderID, sleeping, path, hre, entry, ret>>

\* w.Header().Set(...); json.NewEncoder(w).Encode(resp)
CoEncode(r) ==
    /\ pc[r] = "co_encode"
    /\ \/ /\ resp' = [resp EXCEPT ![r] =
                        [code |-> 200, ctype |-> "application/json",
                         text |-> "", json |-> <<OrderResponse>>]]
          /\ pc' = [pc EXCEPT ![r] = "done"]
          /\ efails' = efails
       \/ /\ efails < MaxEncodeFail
          /\ efails' = efails + 1
          /\ resp' = [resp EXCEPT ![r] =
                        [code |-> 200, ctype |-> "application/json",
                         text |-> "", json |-> <<>>]]
          /\ pc' = [pc EXCEPT ![r] = "co_err1"]
    /\ UNCHANGED <<rng, draws, cancelled, shut,
                   main, shared, kind, valid, spans, delay, orderID,
                   sleeping, path, hre, entry, ret>>

\* logging.DefaultLogger.Error(ctx, "Error encoding response", ...)
CoErr1(r) ==
    /\ pc[r] = "co_err1"
    /\ LoggerLog(r, "root", LevelError, OrderEncodeMessage, EncodeErrAttrs)
    /\ pc' = [pc EXCEPT ![r] = "co_err2"]
    /\ UNCHANGED <<rng, draws, cancelled, shut,
                   main, encoder, mu, logFile, counter, now, lost,
                   efails, kind, valid, resp, delay, orderID, sleeping, path,
                   hre, entry, ret>>

\* logging.JSONLogger.Error(ctx, "Error encoding response", ...)
CoErr2(r) ==
    /\ pc[r] = "co_err2"
    /\ WriteBegin(r, "root", LevelError, OrderEncodeMessage, EncodeErrAttrs, "done")
    /\ UNCHANGED <<rng, draws, cancelled, shut,
                   main, encoder, mu, logFile, counter, lost, efails,
                   kind, valid, spans, resp, delay, orderID, sleeping, path,
                   hre>>

----------------------------------------------------------------------------
(* handlers.handleDBError, handlePaymentError, handleRequestError *)

\* dbCtx, dbSpan := tracer.Start(ctx, "db.insert_order")
HdbStart(r) ==
    /\ pc[r] = "hdb_start"
    /\ spans' = StartSpan(r, "root", "db")
    /\ pc' = [pc EXCEPT ![r] = "hdb_sleep"]
    /\ UNCHANGED <<rng, draws, cancelled, shut,
                   main, shared, efails, kind, valid, resp, delay,
                   orderID, sleeping, path, hre, entry, ret>>

\* time.Sleep(time.Duration(rand.IntN(40)+10) * time.Millisecond)
HdbSleep(r) ==
    /\ pc[r] = "hdb_sleep"
    /\ \E v \in IntN(40) : Sleep(r, (v + 10) * Millisecond, "hdb_call")
    /\ UNCHANGED <<rng, draws, cancelled, shut,
                   main, shared, efails, kind, valid, spans, resp, delay,
                   orderID, path, hre, entry>>

\* Variant of HdbCall that ends the span before the error is reported.
HdbCall_EndFirst(r) ==
    /\ pc[r] = "hdb_call"
    /\ spans' = EndSpan(r, "db")
    /\ hre' = [hre EXCEPT ![r] = [ctx |-> "db", span |-> "db",
                                  message |-> DBMessage, err |-> DBErr,
                                  stage |-> "database"]]
    /\ pc' = [pc EXCEPT ![r] = "hre_log1"]
    /\ UNCHANGED <<rng, draws, cancelled, shut, main, shared, efails, kind, valid,
                   resp, delay, orderID, sleeping, path, entry, ret>>

\* handleRequestError(dbCtx, dbSpan, "database operation failed", err, "database")
HdbCall(r) ==
    /\ pc[r] = "hdb_call"
    /\ hre' = [hre EXCEPT ![r] = [ctx |-> "db", span |-> "db",
                                  message |-> DBMessage, err |-> DBErr,
                                  stage |-> "database"]]
    /\ pc' = [pc EXCEPT ![r] = "hre_log1"]
    /\ UNCHANGED <<rng, draws, cancelled, shut,
                   main, shared, efails, kind, valid, spans, resp, delay,
                   orderID, sleeping, path, entry, ret>>

\* dbSpan.End()
HdbEnd(r) ==
    /\ pc[r] = "hdb_end"
    /\ spans' = EndSpan(r, "db")
    /\ pc' = [pc EXCEPT ![r] = "http_error"]
    /\ UNCHANGED <<rng, draws, cancelled, shut,
                   main, shared, efails, kind, valid, resp, delay,
                   orderID, sleeping, path, hre, entry, ret>>

\* paymentCtx, paymentSpan := tracer.Start(ctx, "payment.process")
HpeStart(r) ==
    /\ pc[r] = "hpe_start"
    /\ spans' = StartSpan(r, "root", "pay")
    /\ pc' = [pc EXCEPT ![r] = "hpe_call"]
    /\ UNCHANGED <<rng, draws, cancelled, shut,
                   main, shared, efails, kind, valid, resp, delay,
                   orderID, sleeping, path, hre, entry, ret>>

\* Variant of HpeCall that hands the request context to handleRequestError.
HpeCall_RequestCtx(r) ==
    /\ pc[r] = "hpe_call"
    /\ hre' = [hre EXCEPT ![r] = [ctx |-> "root", span |-> "pay",
                                  message |-> PaymentMessage, err |-> PaymentErr,
                                  stage |-> "payment"]]
    /\ pc' = [pc EXCEPT ![r] = "hre_log1"]
    /\ UNCHANGED <<rng, draws, cancelled, shut, main, shared, efails, kind, valid,
                   spans, resp, delay, orderID, sleeping, path, entry, ret>>

\* handleRequestError(paymentCtx, paymentSpan, "payment processing failed", err, "payment")
HpeCall(r) ==
    /\ pc[r] = "hpe_call"
    /\ hre' = [hre EXCEPT ![r] = [ctx |-> "pay", span |-> "pay",
                                  message |-> PaymentMessage, err |-> PaymentErr,
                                  stage |-> "payment"]]
    /\ pc' = [pc EXCEPT ![r] = "hre_log1"]
    /\ UNCHANGED <<rng, draws, cancelled, shut,
                   main, shared, efails, kind, valid, spans, resp, delay,
                   orderID, sleeping, path, entry, ret>>

\* Variant of HpeEnd that returns without ending the payment span.
HpeEnd_NoEnd(r) ==
    /\ pc[r] = "hpe_end"
    /\ pc' = [pc EXCEPT ![r] = "http_error"]
    /\ UNCHANGED <<rng, draws, cancelled, shut,
                   main, shared, efails, kind, valid, spans, resp, delay,
                   orderID, sleeping, path, hre, entry, ret>>

\* paymentSpan.End()
HpeEnd(r) ==
    /\ pc[r] = "hpe_end"
    /\ spans' = EndSpan(r, "pay")
    /\ pc' = [pc EXCEPT ![r] = "http_error"]
    /\ UNCHANGED <<rng, draws, cancelled, shut,
                   main, shared, efails, kind, valid, resp, delay,
                   orderID, sleeping, path, hre, entry, ret>>

\* Variant of HttpError: http.Error(w, err.Error(), ...), the error of the
\* failed stage in the body.
HttpError_Detail(r) ==
    /\ pc[r] = "http_error"
    /\ resp' = [resp EXCEPT ![r] =
                  [code |-> 500, ctype |-> "text/plain; charset=utf-8",
                   text |-> IF path[r] = "dbfail" THEN DBErr ELSE PaymentErr,
                   json |-> <<>>]]
    /\ pc' = [pc EXCEPT ![r] = "done"]
    /\ UNCHANGED <<rng, draws, cancelled, shut, main, shared, efails, kind, valid,
                   spans, delay, orderID, sleeping, path, hre, entry, ret>>

\* http.Error(w, "Internal Server Error", http.StatusInternalServerError)
HttpError(r) ==
    /\ pc[r] = "http_error"
    /\ resp' = [resp EXCEPT ![r] =
                  [code |-> 500, ctype |-> "text/plain; charset=utf-8",
                   text |-> "Internal Server Error", json |-> <<>>]]
    /\ pc' = [pc EXCEPT ![r] = "done"]
    /\ UNCHANGED <<rng, draws, cancelled, shut,
                   main, shared, efails, kind, valid, spans, delay,
                   orderID, sleeping, path, hre, entry, ret>>

HreAttrs(r) == <<Attr("error.stage", "STRING", hre[r].stage),
                 Attr("error.reason", "STRING", hre[r].err)>>

\* logging.DefaultLogger.Error(ctx, message, error.stage, error.reason)
HreLog1(r) ==
    /\ pc[r] = "hre_log1"
    /\ LoggerLog(r, hre[r].ctx, LevelError, hre[r].message, HreAttrs(r))
    /\ pc' = [pc EXCEPT ![r] = "hre_log2"]
    /\ UNCHANGED <<rng, draws, cancelled, shut,
                   main, encoder, mu, logFile, counter, now, lost,
                   efails, kind, valid, resp, delay, orderID, sleeping, path,
                   hre, entry, ret>>

\* logging.JSONLogger.Error(ctx, message, error.stage, error.reason)
HreLog2(r) ==
    /\ pc[r] = "hre_log2"
    /\ WriteBegin(r, hre[r].ctx, LevelError, hre[r].message, HreAttrs(r), "hre_add")
    /\ UNCHANGED <<rng, draws, cancelled, shut,
                   main, encoder, mu, logFile, counter, lost, efails,
                   kind, valid, spans, resp, delay, orderID, sleeping, path,
                   hre>>

\* Variant of HreAdd that leaves the counter alone on the error path.
HreAdd_NoIncrement(r) ==
    /\ pc[r] = "hre_add"
    /\ pc' = [pc EXCEPT ![r] = "hre_record"]
    /\ UNCHANGED <<rng, draws, cancelled, shut,
                   main, shared, efails, kind, valid, spans, resp, delay,
                   orderID, sleeping, path, hre, entry, ret>>

\* ordersProcessedCounter.Add(ctx, 1, status="failure")
HreAdd(r) ==
    /\ pc[r] = "hre_add"
    /\ counter' = CounterAdd(statusFailure)
    /\ pc' = [pc EXCEPT ![r] = "hre_record"]
    /\ UNCHANGED <<rng, draws, cancelled, shut,
                   main, encoder, mu, logFile, console, now, lost,
                   efails, kind, valid, spans, resp, delay, orderID, sleeping,
                   path, hre, entry, ret>>

\* span.RecordError(err): an "exception" event on the span
HreRecord(r) ==
    /\ pc[r] = "hre_record"
    /\ spans' = AddEvent(r, hre[r].span,
                  [name |-> "exception",
                   attrs |-> <<Attr("exception.message", "STRING", hre[r].err)>>])
    /\ pc' = [pc EXCEPT ![r] = "hre_status"]
    /\ UNCHANGED <<rng, draws, cancelled, shut,
                   main, shared, efails, kind, valid, resp, delay,
                   orderID, sleeping, path, hre, entry, ret>>

\* span.SetStatus(codes.Error, message)
HreStatus(r) ==
    /\ pc[r] = "hre_status"
    /\ spans' = SetStatus(r, hre[r].span, Error)
    /\ pc' = [pc EXCEPT ![r] = "hre_root"]
    /\ UNCHANGED <<rng, draws, cancelled, shut,
                   main, shared, efails, kind, valid, resp, delay,
                   orderID, sleeping, path, hre, entry, ret>>

\* trace.SpanFromContext(ctx).SetStatus(codes.Error, message), and the
\* return to handleDBError or handlePaymentError
HreRoot(r) ==
    /\ pc[r] = "hre_root"
    /\ spans' = SetStatus(r, SpanFromContext(hre[r].ctx), Error)
    /\ pc' = [pc EXCEPT ![r] = IF hre[r].stage = "database" THEN "hdb_end"
                                                             ELSE "hpe_end"]
    /\ hre' = [hre EXCEPT ![r] = NoHre]
    /\ UNCHANGED <<rng, draws, cancelled, shut,
                   main, shared, efails, kind, valid, resp, delay,
                   orderID, sleeping, path, entry, ret>>

----------------------------------------------------------------------------
(* Specifications *)

Next ==
    \/ NewStructured
    \/ \E r \in Requests :
          \/ Route(r) \/ Wake(r)
          \/ WriteLock(r) \/ WriteEncode(r) \/ WriteUnlock(r)
          \/ InvDraw(r) \/ InvSleep(r) \/ InvInfo1(r) \/ InvInfo2(r)
          \/ InvEncode(r) \/ InvErr1(r) \/ InvErr2(r)
          \/ CoValidate(r) \/ CoDecide(r)
          \/ DbStart(r) \/ DbSleep(r) \/ DbOk(r) \/ DbEnd(r)
          \/ PayStart(r) \/ PaySleep(r) \/ PayOk(r) \/ PayEnd(r)
          \/ CoAdd(r) \/ CoOrderID(r) \/ CoRootOk(r)
          \/ CoInfo1(r) \/ CoInfo2(r) \/ CoEncode(r) \/ CoErr1(r) \/ CoErr2(r)
          \/ HdbStart(r) \/ HdbSleep(r) \/ HdbCall(r) \/ HdbEnd(r)
          \/ HpeStart(r) \/ HpeCall(r) \/ HpeEnd(r) \/ HttpError(r)
          \/ HreLog1(r) \/ HreLog2(r) \/ HreAdd(r) \/ HreRecord(r)
          \/ HreStatus(r) \/ HreRoot(r)

\* ctx := r.Context(): the server cancels the context of a request in
\* flight (the client went away); the handlers never read ctx.Done() or
\* ctx.Err().
Cancel(r) ==
    /\ pc[r] \notin {"idle", "done"}
    /\ ~cancelled[r]
    /\ cancelled' = [cancelled EXCEPT ![r] = TRUE]
    /\ UNCHANGED <<rng, draws, shut, main, shared, efails, pc, kind, valid, spans,
                   resp, delay, orderID, sleeping, path, hre, entry, ret>>

NextCancel == Next \/ \E r \in Requests : Cancel(r)

\* The steps of the handler goroutine of request r: every step but the
\* arrival of the request.
Handler(r) ==
    \/ Wake(r)
    \/ WriteLock(r) \/ WriteEncode(r) \/ WriteUnlock(r)
    \/ InvDraw(r) \/ InvSleep(r) \/ InvInfo1(r) \/ InvInfo2(r)
    \/ InvEncode(r) \/ InvErr1(r) \/ InvErr2(r)
    \/ CoValidate(r) \/ CoDecide(r)
    \/ DbStart(r) \/ DbSleep(r) \/ DbOk(r) \/ DbEnd(r)
    \/ PayStart(r) \/ PaySleep(r) \/ PayOk(r) \/ PayEnd(r)
    \/ CoAdd(r) \/ CoOrderID(r) \/ CoRootOk(r)
    \/ CoInfo1(r) \/ CoInfo2(r) \/ CoEncode(r) \/ CoErr1(r) \/ CoErr2(r)
    \/ HdbStart(r) \/ HdbSleep(r) \/ HdbCall(r) \/ HdbEnd(r)
    \/ HpeStart(r) \/ HpeCall(r) \/ HpeEnd(r) \/ HttpError(r)
    \/ HreLog1(r) \/ HreLog2(r) \/ HreAdd(r) \/ HreRecord(r)
    \/ HreStatus(r) \/ HreRoot(r)

----------------------------------------------------------------------------
(* func main: the graceful shutdown *)

\* context.WithTimeout(context.Background(), 5*time.Second), in seconds
ShutdownTimeout == 5

ShuttingLine == [level |-> "", message |-> "Shutting down server...", attrs |-> <<>>]
ForcedLine == [level |-> "", message |-> "Server forced to shutdown", attrs |-> <<>>]
MpErrLine == [level |-> "", message |-> "Error shutting down meter provider", attrs |-> <<>>]
TpErrLine == [level |-> "", message |-> "Error shutting down tracer provider", attrs |-> <<>>]

mainFrame == <<rng, draws, cancelled, encoder, mu, logFile, counter, now,
               lost, efails, pc, kind, valid, spans, resp, delay, orderID,
               sleeping, path, hre, entry, ret>>

\* <-quit; log.Println("Shutting down server..."); ctx, cancel :=
\* context.WithTimeout(context.Background(), 5*time.Second)
Interrupt ==
    /\ main = "serving"
    /\ main' = "shutdown_server"
    /\ console' = Printf(ShuttingLine)
    /\ shut' = [shut EXCEPT !.left = ShutdownTimeout]
    /\ UNCHANGED mainFrame

\* server.Shutdown(ctx): returns nil once no request is in flight, before
\* the deadline of ctx; returns ctx.Err() at the deadline while a
\* connection is still active, and the error is logged.
ServerShutdown ==
    /\ main = "shutdown_server"
    /\ \/ /\ \A r \in Requests : pc[r] \in {"idle", "done"}
          /\ \E t \in 0..(shut.left - 1) :
                shut' = [shut EXCEPT !.left = @ - t, !.window = shut.left - t,
                                     !.server = "closed"]
          /\ console' = console
       \/ /\ \E r \in Requests : pc[r] \notin {"idle", "done"}
          /\ shut' = [shut EXCEPT !.left = 0, !.window = 0,
                                  !.server = "forced"]
          /\ console' = Printf(ForcedLine)
    /\ main' = "shutdown_mp"
    /\ UNCHANGED mainFrame

\* shutdown(ctx): mp.Shutdown(ctx) flushes when it ends before the deadline
\* of ctx, else returns the error of ctx, which is logged.
MpShutdown ==
    /\ main = "shutdown_mp"
    /\ \E t \in 0..shut.left :
          /\ shut' = [shut EXCEPT !.left = @ - t,
                                  !.mp = IF t < shut.left THEN "flushed"
                                                          ELSE "failed"]
          /\ console' = IF t < shut.left THEN console ELSE Printf(MpErrLine)
    /\ main' = "shutdown_tp"
    /\ UNCHANGED mainFrame

\* tp.Shutdown(ctx), the return of main and the end of the process
TpShutdown ==
    /\ main = "shutdown_tp"
    /\ \E t \in 0..shut.left :
          /\ shut' = [shut EXCEPT !.left = @ - t,
                                  !.tp = IF t < shut.left THEN "flushed"
                                                          ELSE "failed"]
          /\ console' = IF t < shut.left THEN console ELSE Printf(TpErrLine)
    /\ main' = "exited"
    /\ UNCHANGED mainFrame

\* The steps of the process until it exits.
NextMain ==
    \/ main # "exited" /\ Next
    \/ Interrupt \/ ServerShutdown \/ MpShutdown \/ TpShutdown

\* Concurrent requests, the random source drawing the extremes of each range.
Spec == Init /\ [][Next]_vars

\* Concurrent requests whose contexts may be cancelled while in flight.
SpecCancel == Init /\ [][NextCancel]_vars

\* Concurrent requests under the Go scheduler: a goroutine that can take
\* a step is not passed over forever.
SpecFair == Init /\ [][Next]_vars /\ \A r \in Requests : WF_vars(Handler(r))

\* Concurrent requests and an interrupt signal that ends the process.
SpecMain == Init /\ [][NextMain]_vars

\* One request, the random source drawing every value of each range.
SpecFull == InitFull /\ [][Next]_vars

----------------------------------------------------------------------------
(* Observations used by the properties *)

Done(r) == pc[r] = "done"

\* Every request that arrived has returned.
Quiet == main = "serving" /\ \A r \in Requests : pc[r] \in {"idle", "done"}

Orders == {r \in Requests : kind[r] = "order"}
Inventories == {r \in Requests : kind[r] = "inventory"}

RECURSIVE SumF(_, _)
SumF(f, S) ==
    IF S = {} THEN 0
    ELSE LET x == CHOOSE y \in S : TRUE IN f[x] + SumF(f, S \ {x})

\* Log emissions of a returned request: its Info or Error record, and the
\* Error record of a failed response encode.
Emissions(r) == IF resp[r].code = 200 /\ resp[r].json = <<>> THEN 2 ELSE 1

EmissionsOf(S) == SumF([r \in Requests |-> Emissions(r)], S)

HasIDs(line) == "trace_id" \in DOMAIN line

\* The "log" events of span n of request r.
LogEvents(r, n) ==
    LET IsLog(e) == e.name = "log" IN SelectSeq(spans[r][n].events, IsLog)

\* The entries of f (the file, or the lost writes) that carry the
\* identifiers of span n of request r.
LinesOf(f, r, n) ==
    LET Mine(l) == /\ HasIDs(l)
                   /\ l.trace_id = Hex(TraceIDOf(r), 32)
                   /\ l.span_id = Hex(SpanIDOf(r, n), 16)
    IN SelectSeq(f, Mine)

NoIDLines(f) == LET Bare(l) == ~HasIDs(l) IN SelectSeq(f, Bare)

\* Level and message of a "log" event.
EventLevel(e) == e.attrs[1].value
EventMessage(e) == e.attrs[2].value

CountEvents(es, level, message) ==
    Cardinality({i \in DOMAIN es : EventLevel(es[i]) = level /\ EventMessage(es[i]) = message})

CountLines(ls, level, message) ==
    Cardinality({i \in DOMAIN ls : ls[i].level = level /\ ls[i].message = message})

Levels == {LevelInfo, LevelError}
Messages == {InvMessage, InvEncodeMessage, OrderMessage, OrderEncodeMessage,
             DBMessage, PaymentMessage}

ConsoleRecords == BagCardinality(console) - CopiesIn(WarnLine, console)

\* The console line of the record a returned request logs for its outcome.
OutcomeLine(r) ==
    CASE kind[r] = "inventory" ->
            ConsoleLine(LevelInfo, InvMessage, InvAttrs(r))
      [] path[r] = "success" ->
            ConsoleLine(LevelInfo, OrderMessage, OrderAttrs(r))
      [] path[r] = "dbfail" ->
            ConsoleLine(LevelError, DBMessage,
                <<Attr("error.stage", "STRING", "database"),
                  Attr("error.reason", "STRING", DBErr)>>)
      [] path[r] = "payfail" ->
            ConsoleLine(LevelError, PaymentMessage,
                <<Attr("error.stage", "STRING", "payment"),
                  Attr("error.reason", "STRING", PaymentErr)>>)

----------------------------------------------------------------------------
(* Properties *)

\* C1: every createOrder request increments the counter exactly once, by
\* one, under the label of its outcome: at any time the two labels sum to
\* at least the requests that returned and at most those that arrived, and
\* once all requests have returned success counts the 200 responses,
\* failure the 500 responses, and the sum is the number of requests.
C1_CounterSumsToRequests ==
    LET total == counter[statusSuccess] + counter[statusFailure]
        returned == {r \in Orders : Done(r)}
    IN /\ Cardinality(returned) <= total
       /\ total <= Cardinality(Orders)
       /\ \A r \in returned :
             /\ path[r] \in {"success", "dbfail", "payfail"}
             /\ resp[r].code = IF path[r] = "success" THEN 200 ELSE 500
       /\ Quiet =>
             /\ counter[statusSuccess] = Cardinality({r \in Orders : resp[r].code = 200})
             /\ counter[statusFailure] = Cardinality({r \in Orders : resp[r].code = 500})
             /\ total = Cardinality(Orders)

C1_Witness ==
    /\ Quiet
    /\ Orders = Requests
    /\ counter[statusSuccess] = 1
    /\ counter[statusFailure] = 1

\* C2: a child span (db.insert_order, payment.process) is started at most
\* once and ended at most once per request, and is ended before anything
\* of the response is written and when the handler returns.
C2_ChildSpansEndedBeforeResponse ==
    \A r \in Orders : \A n \in {"db", "pay"} :
        /\ spans[r][n].starts <= 1
        /\ spans[r][n].ends <= spans[r][n].starts
        /\ (resp[r].code # 0 \/ Done(r)) => spans[r][n].ends = spans[r][n].starts

C2_Witness ==
    \E r \in Orders :
        /\ Done(r)
        /\ resp[r].code = 500
        /\ spans[r]["db"].starts = 1 /\ spans[r]["db"].ends = 1
        /\ spans[r]["pay"].starts = 1 /\ spans[r]["pay"].ends = 1

\* C3: when a createOrder request that failed (DB or payment failure)
\* returns, the request span of its context has status Error.
C3_RootSpanErrorOnFailure ==
    \A r \in Orders :
        (Done(r) /\ valid[r] /\ resp[r].code = 500)
            => spans[r]["root"].status = Error

\* C4 (as stated): for a returned request with a valid span and an open log
\* file, every "log" event of a span has exactly one line in the file with
\* the identifiers of that span, and every such line has its event.
C4_OneEventOneLine ==
    \A r \in Requests : \A n \in SpanNames :
        (Done(r) /\ valid[r] /\ encoder = "open") =>
            \A lv \in Levels, m \in Messages :
                CountEvents(LogEvents(r, n), lv, m)
                    = CountLines(LinesOf(logFile, r, n), lv, m)

\* C4 (amended): for a request with a valid span and an open log file,
\* every "log" event of a span has exactly one entry with the identifiers
\* of that span, which is a line of the file when its write succeeded and
\* is lost when its write failed; while the request is inside an emission
\* the event may be ahead of its line by one; every line that carries
\* identifiers carries those of a span of a request with a valid span.
C4_OneEventOneLineWhenWritten ==
    /\ \A r \in Requests : \A n \in SpanNames :
          (valid[r] /\ encoder = "open") =>
              LET ev == LogEvents(r, n)
                  ln == LinesOf(logFile, r, n)
                  ls == LinesOf(lost, r, n)
                  ahead == Len(ev) - Len(ln) - Len(ls)
              IN /\ ahead \in {0, 1}
                 /\ Done(r) => ahead = 0
                 /\ Done(r) => \A lv \in Levels, m \in Messages :
                        CountEvents(ev, lv, m)
                            = CountLines(ln, lv, m) + CountLines(ls, lv, m)
    /\ \A i \in DOMAIN logFile :
          HasIDs(logFile[i]) =>
              \E r \in Requests, n \in SpanNames :
                  /\ valid[r]
                  /\ logFile[i].trace_id = Hex(TraceIDOf(r), 32)
                  /\ logFile[i].span_id = Hex(SpanIDOf(r, n), 16)

\* Two requests with valid spans have returned, one of them a failed
\* order whose record is on its child span, and each has its own line.
C4_Witness ==
    /\ encoder = "open"
    /\ lost = <<>>
    /\ \A r \in Requests : Done(r) /\ valid[r]
    /\ \E r \in Orders :
          /\ Len(LogEvents(r, "db")) = 1
          /\ Len(LinesOf(logFile, r, "db")) = 1
    /\ \E r \in Inventories :
          /\ Len(LogEvents(r, "root")) = 1
          /\ Len(LinesOf(logFile, r, "root")) = 1

\* C5 (as stated): a record logged without a valid span adds no span event
\* and no line to the log file: every line of the file carries identifiers.
C5_NoLineWithoutSpan ==
    /\ \A r \in Requests : ~valid[r] =>
          \A n \in SpanNames : spans[r][n].events = <<>>
    /\ \A i \in DOMAIN logFile : HasIDs(logFile[i])

\* C5 (amended): a record logged without a valid span adds no span event
\* and is printed on the console by the span logger; the file logger still
\* appends it to the log file, as a line without trace_id and span_id, when
\* the file is open, and prints it on the console only when the file could
\* not be opened.
C5_BareLineWithoutSpan ==
    LET bare == {r \in Requests : Done(r) /\ ~valid[r]}
        all == {r \in Requests : Done(r)}
    IN /\ \A r \in Requests : ~valid[r] =>
             \A n \in SpanNames : spans[r][n].events = <<>>
       /\ (\A r \in Requests : valid[r] \/ pc[r] = "idle") =>
             NoIDLines(logFile) = <<>>
       /\ \A r \in bare : CopiesIn(OutcomeLine(r), console) >= 1
       /\ Quiet =>
             /\ Len(NoIDLines(logFile)) + Len(NoIDLines(lost))
                   = IF encoder = "open" THEN EmissionsOf(bare) ELSE 0
             /\ ConsoleRecords
                   = EmissionsOf(bare)
                        + (IF encoder = "nil" THEN EmissionsOf(all) ELSE 0)

C5_Witness ==
    /\ Quiet
    /\ encoder = "open"
    /\ \E r \in Requests : Done(r) /\ ~valid[r]
    /\ Len(NoIDLines(logFile)) >= 1
    /\ ConsoleRecords >= 1

\* C6: neither sink's failure stops the handler or the other sink: every
\* returned request has written its response, and once all requests have
\* returned every emission has reached the span sink (an event, or the
\* console when the span is not valid) and the file sink (a line, a failed
\* and discarded write, or the console when the file is not open).
C6_SinkFailuresAreIsolated ==
    LET all == {r \in Requests : Done(r)}
        bare == {r \in all : ~valid[r]}
        events == SumF([r \in Requests |->
                          Len(LogEvents(r, "root")) + Len(LogEvents(r, "db"))
                              + Len(LogEvents(r, "pay"))], all)
    IN /\ \A r \in all : resp[r].code \in {200, 500}
       /\ Quiet =>
             /\ events = EmissionsOf(all \ bare)
             /\ Len(logFile) + Len(lost)
                   = IF encoder = "open" THEN EmissionsOf(all) ELSE 0
             /\ ConsoleRecords
                   = EmissionsOf(bare)
                        + (IF encoder = "nil" THEN EmissionsOf(all) ELSE 0)

\* A write to the file failed for one request, which has its span event
\* and its response; the other request has no valid span and has its line.
C6_Witness ==
    /\ Quiet
    /\ Len(lost) = 1
    /\ \E r \in Requests :
          /\ Done(r) /\ valid[r] /\ resp[r].code # 0
          /\ \E n \in SpanNames :
                Len(LogEvents(r, n)) = 1 /\ Len(LinesOf(lost, r, n)) = 1
    /\ \E r \in Requests :
          Done(r) /\ ~valid[r] /\ Len(NoIDLines(logFile)) = 1

\* C7: the warning is printed exactly when the log file could not be
\* opened, and once; from then on nothing reaches the file, every returned
\* request has its response and its record on the console with level,
\* message and attributes, and once all requests have returned the console
\* holds one line per emission of the file logger (and one per emission of
\* the span logger without a valid span).
C7_UnopenedFileFallsBackToConsole ==
    LET warned == CopiesIn(WarnLine, console)
        all == {r \in Requests : Done(r)}
        bare == {r \in all : ~valid[r]}
    IN /\ warned <= 1
       /\ main = "serving" => (warned = 1 <=> encoder = "nil")
       /\ warned = 1 =>
             /\ logFile = <<>> /\ lost = <<>>
             /\ \A r \in all :
                   /\ resp[r].code \in {200, 500}
                   /\ CopiesIn(OutcomeLine(r), console) >= 1
             /\ Quiet => ConsoleRecords = EmissionsOf(all) + EmissionsOf(bare)

C7_Witness ==
    /\ Quiet
    /\ encoder = "nil"
    /\ CopiesIn(WarnLine, console) = 1
    /\ \A r \in Requests : Done(r) /\ valid[r]
    /\ ConsoleRecords >= 2

\* C8: a record whose write to the open log file failed is printed on the
\* console instead, with one warning.
C8_FailedWriteFallsBackToConsole ==
    \A i \in DOMAIN lost :
        (\A r \in Requests : entry[r] # lost[i]) =>
            /\ \E c \in BagToSet(console) :
                  c.level = lost[i].level /\ c.message = lost[i].message
            /\ \E c \in BagToSet(console) : c.level = "WARN"

\* C9: a checkInventory request sleeps delay milliseconds, with delay in
\* 200..800; its response has code 200, status "success" and delay_ms =
\* delay, and the Info record it logs carries delay in
\* inventory.check.delay_ms in the span event, the file line and the
\* console line.
C9_InventoryDelay ==
    \A r \in Inventories :
        /\ pc[r] # "inv_draw" => delay[r] \in 200..800
        /\ pc[r] = "asleep" => sleeping[r] = delay[r] * Millisecond
        /\ resp[r].code # 0 =>
              /\ resp[r].code = 200
              /\ \A i \in DOMAIN resp[r].json :
                    /\ resp[r].json[i].status = "success"
                    /\ resp[r].json[i].delay_ms = delay[r]
                    /\ resp[r].json[i].delay_ms \in 200..800
        /\ \A i \in DOMAIN spans[r]["root"].events :
              LET e == spans[r]["root"].events[i]
              IN EventMessage(e) = InvMessage =>
                    /\ e.attrs[3].key = "inventory.check.delay_ms"
                    /\ e.attrs[3].value = delay[r]
        /\ \A i \in DOMAIN logFile :
              (/\ logFile[i].message = InvMessage
               /\ HasIDs(logFile[i])
               /\ logFile[i].trace_id = Hex(TraceIDOf(r), 32)) =>
                    logFile[i].attributes["inventory.check.delay_ms"] = delay[r]
        /\ (Done(r) /\ (~valid[r] \/ encoder = "nil")) =>
              CopiesIn(OutcomeLine(r), console) >= 1

C9_Witness ==
    \E r \in Inventories :
        /\ Done(r) /\ valid[r] /\ encoder = "open"
        /\ resp[r].json # <<>>
        /\ resp[r].json[1].delay_ms = 800
        /\ Len(LinesOf(logFile, r, "root")) = 1
        /\ Len(LogEvents(r, "root")) = 1

\* C10 (as stated): the sleep of a checkInventory request is between 200
\* and 799 ms.
C10_SleepBelow800 ==
    \A r \in Inventories :
        pc[r] = "asleep" =>
            /\ sleeping[r] >= 200 * Millisecond
            /\ sleeping[r] <= 799 * Millisecond

\* C10 (amended): the sleep of a checkInventory request is a whole number
\* of milliseconds between 200 and 800 inclusive; 800 ms can be drawn.
C10_SleepUpTo800 ==
    \A r \in Inventories :
        pc[r] = "asleep" =>
            /\ sleeping[r] % Millisecond = 0
            /\ sleeping[r] >= 200 * Millisecond
            /\ sleeping[r] <= 800 * Millisecond

C10_Witness ==
    \E r \in Inventories :
        pc[r] = "asleep" /\ sleeping[r] = 800 * Millisecond

\* The sleep of request r, in nanoseconds, lies in lo..hi milliseconds.
SleepWithin(r, lo, hi) ==
    /\ sleeping[r] % Millisecond = 0
    /\ sleeping[r] >= lo * Millisecond
    /\ sleeping[r] <= hi * Millisecond

\* C11: in createOrder the validation sleep is in 30..79 ms, the DB sleep
\* of the DB-failure path in 10..49 ms, the DB sleep of the success and
\* payment-failure paths in 50..149 ms, the payment sleep of the success
\* path in 40..119 ms and the order id in 0..999, for every draw.
C11_OrderDrawRanges ==
    \A r \in Orders :
        /\ pc[r] = "asleep" =>
              /\ ret[r] \in {"co_decide", "hdb_call", "db_ok", "pay_ok"}
              /\ ret[r] = "co_decide" => SleepWithin(r, 30, 79)
              /\ ret[r] = "hdb_call" =>
                    path[r] = "dbfail" /\ SleepWithin(r, 10, 49)
              /\ ret[r] = "db_ok" =>
                    path[r] \in {"success", "payfail"} /\ SleepWithin(r, 50, 149)
              /\ ret[r] = "pay_ok" =>
                    path[r] = "success" /\ SleepWithin(r, 40, 119)
        /\ pc[r] \notin {"asleep"} => sleeping[r] = 0
        /\ orderID[r] # -1 => path[r] = "success" /\ orderID[r] \in 0..999
        /\ (Done(r) /\ path[r] = "success") => orderID[r] \in 0..999

\* The payment sleep of a successful order at its upper end.
C11_Witness ==
    \E r \in Orders :
        /\ pc[r] = "asleep" /\ ret[r] = "pay_ok"
        /\ sleeping[r] = 119 * Millisecond

\* C12: the branch of createOrder is decided by the bucket and the coin
\* alone: bucket 0, one value of ten, is the failure path and the buckets
\* 1..9 the success path; on the failure path coin 0 is the DB failure and
\* coin 1 the payment failure; the coin is drawn only for bucket 0; the
\* response follows the branch.
C12_BranchFromDraws ==
    /\ Cardinality({b \in 0..9 : \A c \in 0..1 : Branch(b, c) # "success"}) = 1
    /\ Cardinality({b \in 0..9 : Branch(b, -1) = "success"}) = 9
    /\ \A r \in Requests :
          LET b == draws[r].bucket
              c == draws[r].coin
          IN /\ path[r] = "none" <=> b = -1
             /\ b # -1 =>
                   /\ kind[r] = "order"
                   /\ b \in 0..9
                   /\ c # -1 <=> b = 0
                   /\ c \in {-1, 0, 1}
                   /\ path[r] = "success" <=> b \in 1..9
                   /\ path[r] = "dbfail" <=> (b = 0 /\ c = 0)
                   /\ path[r] = "payfail" <=> (b = 0 /\ c = 1)
                   /\ resp[r].code # 0 =>
                         resp[r].code = IF b = 0 THEN 500 ELSE 200

\* A payment failure: bucket 0 and coin 1.
C12_Witness ==
    \E r \in Orders :
        /\ Done(r)
        /\ draws[r] = [bucket |-> 0, coin |-> 1]
        /\ path[r] = "payfail"
        /\ resp[r].code = 500

\* Texts that name the failed stage or its error.
InternalDetail == {DBErr, PaymentErr, DBMessage, PaymentMessage,
                   "database", "payment"}

\* C13: a failed createOrder answers 500 with the plain text "Internal
\* Server Error" whichever stage failed, so the responses of a DB failure
\* and of a payment failure are equal; no response carries the error
\* message or the stage.
C13_FailureResponsesAlike ==
    LET failed == {r \in Orders : Done(r) /\ path[r] \in {"dbfail", "payfail"}}
    IN /\ \A r \in failed :
             resp[r] = [code |-> 500, ctype |-> "text/plain; charset=utf-8",
                        text |-> "Internal Server Error", json |-> <<>>]
       /\ \A r1, r2 \in failed : resp[r1] = resp[r2]
       /\ \A r \in Requests :
             /\ resp[r].text \notin InternalDetail
             /\ \A i \in DOMAIN resp[r].json :
                   /\ resp[r].json[i].message \notin InternalDetail
                   /\ resp[r].json[i].status \notin InternalDetail

\* A DB failure and a payment failure have both been answered.
C13_Witness ==
    \E r1, r2 \in Orders :
        /\ Done(r1) /\ path[r1] = "dbfail"
        /\ Done(r2) /\ path[r2] = "payfail"
        /\ resp[r1] = resp[r2]
        /\ resp[r1].code = 500

\* Positions of the success path after the DB step.
SuccessOnly == {"pay_start", "pay_sleep", "pay_ok", "pay_end", "co_add",
                "co_orderid", "co_rootok", "co_info1", "co_info2",
                "co_encode", "co_err1", "co_err2"}

\* Positions of the DB step of the success and payment-failure paths, and
\* of handlePaymentError.
AfterDBOnly == {"db_start", "db_sleep", "db_ok", "db_end", "hpe_start",
                "hpe_call", "hpe_end"}

FailMessages == {DBMessage, PaymentMessage}

\* "log" events of level ERROR on the spans of request r.
ErrorEvents(r) ==
    SumF([n \in SpanNames |->
            Cardinality({i \in DOMAIN LogEvents(r, n) :
                            EventLevel(LogEvents(r, n)[i]) = LevelError})],
         SpanNames)

\* Entries of f of level ERROR with the identifiers of a span of request r.
ErrorLines(f, r) ==
    SumF([n \in SpanNames |->
            Cardinality({i \in DOMAIN LinesOf(f, r, n) :
                            LinesOf(f, r, n)[i].level = LevelError})],
         SpanNames)

\* Console lines that report a failed stage.
ConsoleFailures ==
    SumF([c \in BagToSet(console) |-> CopiesIn(c, console)],
         {c \in BagToSet(console) : c.message \in FailMessages})

\* C14: a createOrder request that took a failure branch runs no later
\* stage and retries nothing: after a DB failure payment.process is never
\* started and db.insert_order never has status Ok; after either failure
\* the request is never at a position of the success path, draws no order
\* id, logs no "Order created successfully", starts each stage span at
\* most once, leaves the success counter alone, and has emitted exactly one
\* ERROR record per sink when it returns.
C14_FailureIsTerminal ==
    LET failed == {r \in Orders : path[r] \in {"dbfail", "payfail"}}
        returned == {r \in failed : Done(r)}
        bare == {r \in returned : ~valid[r]}
    IN /\ \A r \in failed :
             /\ pc[r] \notin SuccessOnly
             /\ orderID[r] = -1
             /\ spans[r]["db"].starts <= 1 /\ spans[r]["pay"].starts <= 1
             /\ spans[r]["root"].status # Ok
             /\ \A n \in SpanNames :
                   /\ CountEvents(LogEvents(r, n), LevelInfo, OrderMessage) = 0
                   /\ CountLines(LinesOf(logFile, r, n), LevelInfo, OrderMessage) = 0
             /\ path[r] = "dbfail" =>
                   /\ pc[r] \notin AfterDBOnly
                   /\ spans[r]["pay"].starts = 0
                   /\ spans[r]["db"].status # Ok
             /\ (Done(r) /\ valid[r]) =>
                   /\ ErrorEvents(r) = 1
                   /\ CountEvents(LogEvents(r, IF path[r] = "dbfail" THEN "db" ELSE "pay"),
                                  LevelError,
                                  IF path[r] = "dbfail" THEN DBMessage ELSE PaymentMessage) = 1
                   /\ encoder = "open" =>
                         ErrorLines(logFile, r) + ErrorLines(lost, r) = 1
       /\ counter[statusSuccess] <= Cardinality({r \in Orders : path[r] = "success"})
       /\ counter[statusFailure] <= Cardinality(failed)
       /\ Quiet =>
             /\ counter[statusFailure] = Cardinality(returned)
             /\ ConsoleFailures
                   = Cardinality(bare)
                        + (IF encoder = "nil" THEN Cardinality(returned) ELSE 0)

\* A DB failure and a payment failure have returned, each with its ERROR
\* record on its span and in the file.
C14_Witness ==
    /\ encoder = "open"
    /\ \E r1, r2 \in Orders :
          /\ Done(r1) /\ valid[r1] /\ path[r1] = "dbfail"
          /\ Done(r2) /\ valid[r2] /\ path[r2] = "payfail"
          /\ ErrorEvents(r1) = 1 /\ ErrorEvents(r2) = 1
          /\ ErrorLines(logFile, r1) = 1 /\ ErrorLines(logFile, r2) = 1
          /\ spans[r1]["pay"].starts = 0

\* C15: for every span of a createOrder request SetStatus is applied at
\* most once, a span it was never applied to has status Unset, and a child
\* span that has been ended had it applied exactly once.
C15_StatusSetOnce ==
    \A r \in Orders : \A n \in SpanNames :
        valid[r] =>
            /\ spans[r][n].sets <= 1
            /\ spans[r][n].sets = 0 => spans[r][n].status = Unset
            /\ (n # "root" /\ spans[r][n].ends > 0) => spans[r][n].sets = 1

\* C16: the log file is append-only: a step leaves the lines of the file
\* in place, unchanged and in order, and adds at most one line, at the
\* end; a write that succeeds adds exactly the entry of its request, and
\* nothing but a write adds a line.
C16_LogFileAppendOnly ==
    [][/\ Len(logFile') \in {Len(logFile), Len(logFile) + 1}
       /\ SubSeq(logFile', 1, Len(logFile)) = logFile
       /\ \A r \in Requests :
             (pc[r] = "w_encode" /\ pc'[r] = "w_unlock" /\ lost' = lost)
                 => logFile' = Append(logFile, entry[r])
       /\ logFile' # logFile =>
             \E r \in Requests :
                 /\ pc[r] = "w_encode"
                 /\ logFile' = Append(logFile, entry[r])]_vars

\* The file holds the lines of two requests, the second written after the
\* first.
C16_Witness ==
    /\ Len(logFile) >= 2
    /\ \E r1, r2 \in Requests :
          /\ r1 # r2 /\ valid[r1] /\ valid[r2]
          /\ Len(LinesOf(logFile, r1, "root")) >= 1
          /\ Len(LinesOf(logFile, r2, "root")) >= 1

\* The requests inside the encode-and-write step of StructuredLogger.write.
InWrite == {r \in Requests : pc[r] \in {"w_encode", "w_unlock"}}

\* The fields every line of the file carries.
BaseFields == {"timestamp", "level", "message", "attributes"}

\* C17: at most one request at a time is inside the encode-and-write step
\* of the file sink, the lock is held by that request and by nobody once
\* the write, failed or not, has returned, and every line of the file is
\* one whole record, no record taking part in two lines.
C17_WriteIsExclusive ==
    /\ Cardinality(InWrite) <= 1
    /\ \A r \in Requests : (mu = r) <=> (r \in InWrite)
    /\ mu \in Requests \cup {0}
    /\ Quiet => mu = 0
    /\ \A i \in 1..Len(logFile) :
          /\ BaseFields \subseteq DOMAIN logFile[i]
          /\ DOMAIN logFile[i] \subseteq BaseFields \cup {"trace_id", "span_id"}
          /\ \A j \in 1..Len(logFile) :
                logFile[i].timestamp = logFile[j].timestamp => i = j

\* After a failed write has released the lock, one request holds it and
\* the other waits for it.
C17_Witness ==
    /\ Len(lost) >= 1
    /\ \E r1, r2 \in Requests :
          /\ pc[r1] = "w_encode" /\ mu = r1
          /\ pc[r2] = "w_lock"

\* The requests whose response body could not be encoded: they are at the
\* error logs that follow the encode, or have returned without a body on a
\* path that writes one.
EncodeFailed ==
    {r \in Requests :
        \/ pc[r] \in {"co_err1", "co_err2", "inv_err1", "inv_err2"}
        \/ /\ Done(r)
           /\ resp[r].json = <<>>
           /\ kind[r] = "inventory" \/ path[r] = "success"}

EncodeMessageOf(r) ==
    IF kind[r] = "inventory" THEN InvEncodeMessage ELSE OrderEncodeMessage

\* C18: a request whose response body could not be encoded keeps status
\* 200 and its outcome: the root span of a createOrder keeps status Ok (that
\* of a checkInventory stays Unset) and gets no exception event, the request
\* has one ERROR record in each sink when it returns, and once all requests
\* have returned the counter holds one success per request of the success
\* path and one failure per request of a failure path.
C18_EncodeFailureKeepsOutcome ==
    /\ \A r \in EncodeFailed :
          LET msg == EncodeMessageOf(r)
              line == ConsoleLine(LevelError, msg, EncodeErrAttrs)
              onConsole == (IF valid[r] THEN 0 ELSE 1)
                              + (IF encoder = "nil" THEN 1 ELSE 0)
          IN /\ resp[r].code = 200
             /\ resp[r].ctype = "application/json"
             /\ \A n \in SpanNames :
                   \A i \in DOMAIN spans[r][n].events :
                       spans[r][n].events[i].name # "exception"
             /\ valid[r] =>
                   spans[r]["root"].status
                       = IF kind[r] = "order" THEN Ok ELSE Unset
             /\ Done(r) =>
                   /\ valid[r] =>
                         CountEvents(LogEvents(r, "root"), LevelError, msg) = 1
                   /\ (valid[r] /\ encoder = "open") =>
                         CountLines(LinesOf(logFile, r, "root")
                                        \o LinesOf(lost, r, "root"),
                                    LevelError, msg) = 1
                   /\ (~valid[r] /\ encoder = "open") =>
                         CountLines(NoIDLines(logFile) \o NoIDLines(lost),
                                    LevelError, msg) >= 1
                   /\ CopiesIn(line, console) >= onConsole
    /\ Quiet =>
          /\ counter[statusSuccess]
                = Cardinality({r \in Orders : path[r] = "success"})
          /\ counter[statusFailure]
                = Cardinality({r \in Orders : path[r] \in {"dbfail", "payfail"}})

\* A createOrder request with a recorded span has returned 200 without a
\* body, with its success increment and its ERROR line in the file.
C18_Witness ==
    \E r \in Orders :
        /\ Done(r) /\ valid[r] /\ path[r] = "success"
        /\ resp[r].json = <<>> /\ resp[r].code = 200
        /\ spans[r]["root"].status = Ok
        /\ counter[statusSuccess] >= 1
        /\ CountLines(LinesOf(logFile, r, "root"), LevelError,
                      OrderEncodeMessage) = 1

\* Starts and ends of the stage spans a createOrder request has when it
\* returns from path p: <<db starts, db ends, pay starts, pay ends>>.
StagesOf(p) ==
    CASE p = "success" -> <<1, 1, 1, 1>>
      [] p = "dbfail"  -> <<1, 1, 0, 0>>
      [] p = "payfail" -> <<1, 1, 1, 1>>
      [] OTHER         -> <<0, 0, 0, 0>>

\* The records of request r in the file or among the lost writes.
RecordsOf(r) ==
    SumF([n \in SpanNames |->
            Len(LinesOf(logFile, r, n)) + Len(LinesOf(lost, r, n))],
         SpanNames)

\* C19: a createOrder request whose context was cancelled while in flight
\* returns as if it had not been: it has taken a path, opened and closed
\* the spans of that path, and has the response of that path; next to an
\* uncancelled request with the same draws, order id, span validity and
\* encode result it has the same path, the same response, the same spans
\* with the same events and the same number of records in the file; and
\* once all requests have returned every request has been counted once.
C19_CancelChangesNothing ==
    LET returned == {r \in Orders : Done(r)}
    IN /\ \A r \in returned :
             cancelled[r] =>
                /\ path[r] \in {"success", "dbfail", "payfail"}
                /\ draws[r] # NoDraws
                /\ <<spans[r]["db"].starts, spans[r]["db"].ends,
                     spans[r]["pay"].starts, spans[r]["pay"].ends>>
                      = StagesOf(path[r])
                /\ resp[r].code = IF path[r] = "success" THEN 200 ELSE 500
                /\ (path[r] = "success") <=> (orderID[r] # -1)
       /\ \A r1, r2 \in returned :
             (/\ cancelled[r1] /\ ~cancelled[r2]
              /\ draws[r1] = draws[r2]
              /\ orderID[r1] = orderID[r2]
              /\ valid[r1] = valid[r2]
              /\ (resp[r1].json = <<>>) <=> (resp[r2].json = <<>>))
                 => /\ path[r1] = path[r2]
                    /\ resp[r1] = resp[r2]
                    /\ spans[r1] = spans[r2]
                    /\ (valid[r1] /\ Quiet) => RecordsOf(r1) = RecordsOf(r2)
       /\ Quiet =>
             counter[statusSuccess] + counter[statusFailure]
                 = Cardinality(Orders)

\* Two createOrder requests with the same draws have returned, one of them
\* cancelled on the way.
C19_Witness ==
    \E r1, r2 \in Orders :
        /\ Done(r1) /\ Done(r2)
        /\ cancelled[r1] /\ ~cancelled[r2]
        /\ valid[r1] /\ valid[r2]
        /\ draws[r1] = draws[r2]
        /\ path[r1] = "payfail"

\* C20: under fair scheduling every request that has started, createOrder
\* or checkInventory, eventually returns, whatever the other request does
\* with the lock of the log file.
C20_EveryRequestReturns ==
    \A r \in Requests : (pc[r] # "idle") ~> Done(r)

\* A createOrder and a checkInventory request that wrote to the same file
\* have both returned.
C20_Witness ==
    /\ encoder = "open"
    /\ \E r1 \in Orders, r2 \in Inventories :
          /\ Done(r1) /\ Done(r2)
          /\ valid[r1] /\ valid[r2]
          /\ RecordsOf(r1) >= 1 /\ RecordsOf(r2) >= 1

\* The names of the events of span n of request r, in order.
EventNames(r, n) ==
    [i \in DOMAIN spans[r][n].events |-> spans[r][n].events[i].name]

\* The positions of a failing request after the increment of the counter.
AfterAdd == {"hre_record", "hre_status", "hre_root", "hdb_end", "hpe_end",
             "http_error", "done"}

\* The requests on the DB-failure branch whose spans are recorded.
DBFailed == {r \in Orders : valid[r] /\ path[r] = "dbfail"}

\* C21 as stated: in the DB-failure branch the Error record with
\* stage "database" is emitted only after db.insert_order has been closed
\* with the error recorded and status Error.
C21_LogAfterSpanClosed ==
    \A r \in DBFailed :
        (ErrorEvents(r) + ErrorLines(logFile, r) + ErrorLines(lost, r) > 0)
            => /\ spans[r]["db"].ends > 0
               /\ spans[r]["db"].status = Error

\* C21: in the DB-failure branch db.insert_order is opened, the Error
\* record with stage "database" is emitted to both sinks while the span is
\* open, then the failure counter is incremented, then the error is
\* recorded on the span, then its status is set to Error, then the span is
\* closed, and only then the 500 response is sent.
C21_DBFailureOrder ==
    /\ \A r \in DBFailed :
          LET db == spans[r]["db"]
              logged == ErrorLines(logFile, r) + ErrorLines(lost, r)
          IN /\ EventNames(r, "db") \in {<<>>, <<"log">>, <<"log", "exception">>}
             /\ db.events # <<>> => db.starts = 1
             /\ (encoder = "open" /\ pc[r] \in AfterAdd \cup {"hre_add"})
                   => logged = 1
             /\ pc[r] \in AfterAdd \cup {"hre_add", "hre_log2"}
                   => EventNames(r, "db")[1] = "log"
             /\ EventNames(r, "db") = <<"log", "exception">>
                   => pc[r] \in AfterAdd \ {"hre_record"}
             /\ db.status = Error => EventNames(r, "db") = <<"log", "exception">>
             /\ db.ends > 0 => db.status = Error /\ db.ends = 1
             /\ resp[r].code # 0 => resp[r].code = 500 /\ db.ends = 1
    /\ counter[statusFailure]
          = Cardinality({r \in Orders : /\ path[r] \in {"dbfail", "payfail"}
                                        /\ pc[r] \in AfterAdd})

\* A DB failure has logged, counted, recorded the error and set the status,
\* and its span is still open, the response not yet sent.
C21_Witness ==
    \E r \in DBFailed :
        /\ pc[r] = "hdb_end"
        /\ EventNames(r, "db") = <<"log", "exception">>
        /\ spans[r]["db"].status = Error /\ spans[r]["db"].ends = 0
        /\ ErrorLines(logFile, r) = 1
        /\ counter[statusFailure] >= 1
        /\ resp[r].code = 0

\* The requests of the success path that are past the increment of the
\* counter.
Counted ==
    {r \in Orders :
        /\ path[r] = "success"
        /\ pc[r] \in {"co_orderid", "co_rootok", "co_info1", "co_info2",
                      "co_encode", "co_err1", "co_err2", "w_lock",
                      "w_encode", "w_unlock", "done"}}

\* The Info records of request r that carry its order id: span events, and
\* lines of f.
InfoEvents(r) ==
    {i \in DOMAIN LogEvents(r, "root") :
        LogEvents(r, "root")[i].attrs
            = LogEvent(LevelInfo, OrderMessage, OrderAttrs(r)).attrs}

InfoLines(f, r) ==
    {i \in DOMAIN LinesOf(f, r, "root") :
        /\ LinesOf(f, r, "root")[i].level = LevelInfo
        /\ LinesOf(f, r, "root")[i].message = OrderMessage
        /\ LinesOf(f, r, "root")[i].attributes = attrsToMap(OrderAttrs(r))}

\* C22: on the success path the success counter counts exactly the
\* requests past the increment, and such a request has db.insert_order and
\* payment.process both closed with status Ok; a request whose response
\* has been written has been counted, has its root span Ok, its order id,
\* and its Info record with that order id in each sink.
C22_SuccessOrder ==
    /\ counter[statusSuccess] = Cardinality(Counted)
    /\ \A r \in Counted :
          valid[r] =>
             \A n \in {"db", "pay"} :
                 /\ spans[r][n].starts = 1 /\ spans[r][n].ends = 1
                 /\ spans[r][n].status = Ok
    /\ \A r \in Orders :
          (path[r] = "success" /\ resp[r].code # 0) =>
             /\ r \in Counted
             /\ orderID[r] \in 0..999
             /\ valid[r] =>
                   /\ spans[r]["root"].status = Ok
                   /\ Cardinality(InfoEvents(r)) = 1
                   /\ encoder = "open" =>
                         Cardinality(InfoLines(logFile, r))
                             + Cardinality(InfoLines(lost, r)) = 1
             /\ ~valid[r] =>
                   CopiesIn(ConsoleLine(LevelInfo, OrderMessage, OrderAttrs(r)),
                            console) >= 1

\* A createOrder request has answered 200 with its body, after the
\* increment, the root status and the Info line in the file.
C22_Witness ==
    \E r \in Orders :
        /\ valid[r] /\ path[r] = "success" /\ Done(r)
        /\ resp[r].code = 200 /\ resp[r].json = <<OrderResponse>>
        /\ counter[statusSuccess] >= 1
        /\ spans[r]["root"].status = Ok
        /\ Cardinality(InfoLines(logFile, r)) = 1

\* Span n of request r has been started and not ended.
Open(r, n) == spans[r][n].starts > 0 /\ spans[r][n].ends = 0

\* C23: db.insert_order and payment.process are children of the request
\* span, which no start of a child replaces; the two are never open
\* together, and payment.process is opened on the success and
\* payment-failure paths only after db.insert_order was closed, with
\* status Ok.
C23_ChildrenOfRootNeverOverlap ==
    \A r \in Orders :
        /\ spans[r]["root"].starts = 1
        /\ spans[r]["root"].parent = "none"
        /\ \A n \in {"db", "pay"} :
              /\ spans[r][n].starts > 0 => spans[r][n].parent = "root"
              /\ spans[r][n].starts = 0 => spans[r][n].parent = "none"
        /\ ~(Open(r, "db") /\ Open(r, "pay"))
        /\ spans[r]["pay"].starts > 0 =>
              /\ path[r] \in {"success", "payfail"}
              /\ spans[r]["db"].starts = 1 /\ spans[r]["db"].ends = 1
              /\ valid[r] => spans[r]["db"].status = Ok

\* payment.process is open under the request span after db.insert_order
\* was closed with Ok.
C23_Witness ==
    \E r \in Orders :
        /\ valid[r] /\ path[r] = "payfail"
        /\ Open(r, "pay") /\ spans[r]["pay"].parent = "root"
        /\ spans[r]["db"].parent = "root"
        /\ spans[r]["db"].ends = 1 /\ spans[r]["db"].status = Ok

\* The span the records of request r belong to: the span of the failing
\* stage on a failure path, the request span otherwise.
RecordSpan(r) ==
    CASE kind[r] = "order" /\ path[r] = "dbfail"  -> "db"
      [] kind[r] = "order" /\ path[r] = "payfail" -> "pay"
      [] OTHER -> "root"

\* The level of the records request r emits apart from those of a failed
\* response encode.
RecordLevel(r) == IF RecordSpan(r) = "root" THEN LevelInfo ELSE LevelError

\* C24: the records of a request are attributed to one span: the ERROR
\* record of a failure path is emitted while the span of the failing stage
\* is open, as a "log" event of that span and a line with its span_id; the
\* Info record of the success path and the records of checkInventory are
\* events of the request span and lines with its span_id.
C24_RecordsAttributedToStageSpan ==
    \A r \in Requests :
        (valid[r] /\ kind[r] # "none") =>
           LET s == RecordSpan(r)
               emitted == pc[r] \in AfterAdd \cup {"hre_add"}
           IN /\ \A n \in SpanNames \ {s} :
                    /\ LogEvents(r, n) = <<>>
                    /\ LinesOf(logFile, r, n) = <<>>
                    /\ LinesOf(lost, r, n) = <<>>
              /\ pc[r] \in {"hre_log1", "hre_log2"} =>
                    /\ hre[r].ctx = s /\ hre[r].span = s
                    /\ Open(r, s)
              /\ (s # "root" /\ pc[r] \in {"w_lock", "w_encode", "w_unlock"}) =>
                    /\ Open(r, s)
                    /\ entry[r].span_id = Hex(SpanIDOf(r, s), 16)
                    /\ entry[r].trace_id = Hex(TraceIDOf(r), 32)
                    /\ entry[r].level = LevelError
              /\ (s # "root" /\ emitted) =>
                    /\ Len(LogEvents(r, s)) = 1
                    /\ EventLevel(LogEvents(r, s)[1]) = LevelError
                    /\ encoder = "open" =>
                          Len(LinesOf(logFile, r, s)) + Len(LinesOf(lost, r, s)) = 1
              /\ (s = "root" /\ Done(r)) =>
                    /\ Len(LogEvents(r, s)) >= 1
                    /\ EventLevel(LogEvents(r, s)[1]) = LevelInfo
                    /\ encoder = "open" =>
                          Len(LinesOf(logFile, r, s)) + Len(LinesOf(lost, r, s))
                              = Len(LogEvents(r, s))

\* A payment failure has its ERROR event on payment.process and its line
\* with that span's id while the span is open; a returned request has its
\* Info line under the request span.
C24_Witness ==
    /\ \E r \in Orders :
          /\ valid[r] /\ path[r] = "payfail" /\ pc[r] = "hre_add"
          /\ Open(r, "pay")
          /\ Len(LogEvents(r, "pay")) = 1
          /\ Len(LinesOf(logFile, r, "pay")) = 1
    /\ \E r \in Requests :
          /\ valid[r] /\ Done(r) /\ RecordSpan(r) = "root"
          /\ Len(LinesOf(logFile, r, "root")) = 1

\* C25: after an interrupt the HTTP server is shut down before the meter
\* provider, the meter provider before the tracer provider, both before
\* the process exits, and the providers are handed a window of at least
\* one and at most five seconds, also when the server drained until its
\* deadline.
C25_ProvidersGetWindow ==
    /\ main \in {"shutdown_mp", "shutdown_tp", "exited"} => shut.server # "up"
    /\ shut.mp # "up" => shut.server # "up"
    /\ shut.tp # "up" => shut.mp # "up"
    /\ main = "exited" => shut.mp # "up" /\ shut.tp # "up"
    /\ shut.window # -1 => shut.window \in 1..ShutdownTimeout

\* C26: a checkInventory request touches neither the counter nor the
\* status of the request span and opens no child span: the counter counts
\* createOrder requests only; the request sleeps once, for its delay; when
\* it returns it has answered 200 and has one Info record in each sink,
\* and one ERROR record more in each when the encode failed.
C26_InventoryFrame ==
    /\ counter[statusSuccess] + counter[statusFailure]
          = Cardinality(Counted)
              + Cardinality({r \in Orders : /\ path[r] \in {"dbfail", "payfail"}
                                            /\ pc[r] \in AfterAdd})
    /\ \A r \in Inventories :
          /\ spans[r]["db"] = NoSpan /\ spans[r]["pay"] = NoSpan
          /\ spans[r]["root"].sets = 0 /\ spans[r]["root"].status = Unset
          /\ spans[r]["root"].starts = 1 /\ spans[r]["root"].ends = 0
          /\ path[r] = "none" /\ draws[r] = NoDraws /\ orderID[r] = -1
          /\ hre[r] = NoHre
          /\ pc[r] = "asleep" =>
                ret[r] = "inv_info1" /\ sleeping[r] = delay[r] * Millisecond
          /\ \A i \in DOMAIN spans[r]["root"].events :
                spans[r]["root"].events[i].name = "log"
          /\ Done(r) =>
                /\ resp[r].code = 200
                /\ valid[r] =>
                      /\ Len(LogEvents(r, "root")) = Emissions(r)
                      /\ CountEvents(LogEvents(r, "root"), LevelInfo, InvMessage) = 1
                      /\ CountEvents(LogEvents(r, "root"), LevelError,
                                     InvEncodeMessage) = Emissions(r) - 1
                      /\ encoder = "open" =>
                            Len(LinesOf(logFile, r, "root"))
                                + Len(LinesOf(lost, r, "root")) = Emissions(r)

\* Only checkInventory requests have run: both have returned, one after a
\* failed encode, and the counter is still zero.
C26_Witness ==
    /\ \A r \in Requests : r \in Inventories /\ Done(r) /\ valid[r]
    /\ \E r \in Requests : Emissions(r) = 2
    /\ counter[statusSuccess] = 0 /\ counter[statusFailure] = 0
    /\ encoder = "open"

\* The lines of the file that carry the trace id of request r, in file
\* order.
TraceLines(r) ==
    LET Mine(l) == HasIDs(l) /\ l.trace_id = Hex(TraceIDOf(r), 32)
    IN SelectSeq(logFile, Mine)

\* Lines i < j of the file with the timestamp of i after that of j.
OutOfOrder ==
    {p \in (DOMAIN logFile) \X (DOMAIN logFile) :
        p[1] < p[2] /\ logFile[p[1]].timestamp > logFile[p[2]].timestamp}

\* C27 as stated: the lines of the log file are in non-decreasing order of
\* their timestamps.
C27_FileOrderedByTimestamp == OutOfOrder = {}

\* C27: the lines of one request are in the file in non-decreasing order
\* of their timestamps, and the entry a request is about to write is later
\* than its lines in the file; two lines out of timestamp order belong to
\* different requests (the timestamp is taken before the lock).
C27_RequestLinesOrdered ==
    /\ \A r \in Requests :
          LET ls == TraceLines(r)
          IN /\ \A i, j \in DOMAIN ls :
                   i < j => ls[i].timestamp <= ls[j].timestamp
             /\ (valid[r] /\ pc[r] \in {"w_lock", "w_encode"}) =>
                   \A i \in DOMAIN ls : ls[i].timestamp < entry[r].timestamp
    /\ \A p \in OutOfOrder :
          ~(/\ HasIDs(logFile[p[1]]) /\ HasIDs(logFile[p[2]])
            /\ logFile[p[1]].trace_id = logFile[p[2]].trace_id)
    /\ \A i \in DOMAIN logFile : logFile[i].timestamp < now

\* A request has its two lines in the file in order, and the file holds a
\* line of the other request written after a line with a later timestamp.
C27_Witness ==
    /\ \E r \in Requests : valid[r] /\ Len(TraceLines(r)) = 2
    /\ OutOfOrder # {}

====
